---------------------------- MODULE Spec2Model ----------------------------
(***************************************************************************)
(* Media plan validator: the extractors of utils/document_parser.py and    *)
(* the checks of media_plan_validator.py, as state machines.               *)
(*                                                                         *)
(* Texts are real strings drawn from a fixed corpus.  TLC cannot look      *)
(* inside a string, so what Python's str methods and regular expressions   *)
(* answer for a text of the corpus is tabulated in Lex (every row was      *)
(* computed with the patterns of config/validation_config.py).  Positions  *)
(* are 1-based (Python's index k is k+1 here) and None is position 0.      *)
(* Amounts are whole currency units; the 5% tolerance is kept exact by     *)
(* comparing 100*difference with 5*expected.                               *)
(***************************************************************************)
EXTENDS Integers, Sequences, FiniteSets, TLC

VARIABLES
    pc,                        \* position of the running call
    brief,                     \* json_brief
    paragraphs,                \* doc.paragraphs (texts)
    tables,                    \* doc.tables (rows of cell texts)
    all_text_elements,         \* linearized non-empty texts
    i,                         \* loop index of the running pass
    strategy_explainer_index,  \* 0 is None
    creative_checklist_index,  \* 0 is None
    currency_data,             \* list of CurrencyMention
    start_date, end_date,      \* extracted dates
    media_plan_data,           \* extracted plan rows
    creative_checklist,        \* extracted checklist items
    checks,                    \* list of ValidationResult
    overall_status,            \* TestReport.overall_status
    run_pc,                    \* position in main / validate_media_plan
    json_file, docx_file,      \* the files behind json_path and docx_path
    client_arg,                \* the openai_client argument of __init__
    openai_client,             \* self.openai_client
    include_ai_validation,     \* the flag of validate_media_plan
    model_reply,               \* what the language model answers when asked
    model_calls,               \* requests sent to the language model
    raised,                    \* the exception that reached the caller
    report,                    \* the TestReport returned, if any
    runs                       \* results of completed extraction runs

\* the state of a whole run, which a single check leaves alone
run_vars == <<run_pc, json_file, docx_file, client_arg, openai_client,
              include_ai_validation, model_reply, model_calls, raised,
              report, runs>>

vars == <<pc, brief, paragraphs, tables, all_text_elements, i,
          strategy_explainer_index, creative_checklist_index, currency_data,
          start_date, end_date, media_plan_data, creative_checklist,
          checks, overall_status, run_vars>>

\* a check called on its own, outside validate_media_plan
NoRun ==
    /\ run_pc = "none"
    /\ json_file = "unused"
    /\ docx_file = "unused"
    /\ client_arg = "None"
    /\ openai_client = "None"
    /\ include_ai_validation = FALSE
    /\ model_reply = "unused"
    /\ model_calls = 0
    /\ raised = "None"
    /\ report = <<>>
    /\ runs = <<>>

----------------------------------------------------------------------------
(* Bounds of the model                                                     *)

MaxParas == 4      \* paragraphs of a document of the budget runs
MaxChecks == 5     \* results in a list handed to the aggregation
MaxRows == 2       \* data rows of a plan table of the channel runs
MaxLabels == 2     \* "Channel:" paragraphs of a document of the channel runs
MaxItems == 2      \* paragraphs after the heading in the creative runs
MaxRuns == 2       \* extractions of the same document one after the other

----------------------------------------------------------------------------
(* Pattern catalog: config/validation_config.py                            *)

None == 0

PLATFORM_KEYWORDS ==
    <<"meta", "facebook", "instagram", "google", "youtube", "tiktok",
      "search", "display", "programmatic", "microsoft", "linkedin",
      "twitter", "snapchat", "pinterest">>

OBJECTIVE_KEYWORDS ==
    {"sales", "traffic", "awareness", "leads", "conversions", "visits",
     "installs", "subscriptions", "engagement", "reach", "impressions"}

\* tolerance as a percentage: 0.05
DEFAULT_BUDGET_TOLERANCE == 5

DEFAULT_DURATION_TOLERANCE_DAYS == 1

PLATFORM_FIELDS ==
    <<"platform", "channel", "media channel", "advertising platform">>

CHANNEL_NORMALIZATIONS ==
    [k \in {"facebook", "instagram", "meta combined", "meta (fb)", "meta (ig)",
            "google search", "google display network",
            "google responsive display", "youtube", "tiktok",
            "microsoft search", "microsoft audience network"} |->
        CASE k = "facebook" -> "meta (facebook)"
          [] k = "instagram" -> "meta (instagram)"
          [] k = "meta combined" -> "meta (combined)"
          [] k = "meta (fb)" -> "meta (facebook)"
          [] k = "meta (ig)" -> "meta (instagram)"
          [] k = "google search" -> "google search"
          [] k = "google display network" -> "google display"
          [] k = "google responsive display" -> "google display"
          [] k = "youtube" -> "youtube ads"
          [] k = "tiktok" -> "tiktok ads"
          [] k = "microsoft search" -> "microsoft search"
          [] k = "microsoft audience network" -> "microsoft audience"]


----------------------------------------------------------------------------
(* The corpus and its lexical table                                        *)

\* The data the model draws names from: the keys of the normalization table
ChannelKeys == DOMAIN CHANNEL_NORMALIZATIONS

\* "Channel: <name>", the label line of a strategy narrative
LabelText(name) == "Channel: " \o name

(* Lex(t): what the code's string operations answer for the text t.        *)
(*   strip    t.strip()                                                    *)
(*   lower    t.strip().lower()                                            *)
(*   strategy some STRATEGY_EXPLAINER_PATTERNS entry matches the lower     *)
(*            text                                                         *)
(*   words    the keywords the code searches for (`kw in text.lower()`)    *)
(*            that occur in the lower text                                 *)
(*   money    the matches of CURRENCY_PATTERNS in t, pattern by pattern    *)
(*            and left to right, each with the number parsed from it       *)
(*   labels   the cleaned captures of 'channel:\s*([^\n\r]+)' in t         *)
(*   number   the number a cost column parses from t, if it finds one      *)
(*   dates    for each of the six date patterns, in list order, the groups  *)
(*            it captures in the lower text (none when it does not match)   *)
(*   long     the stripped text has more than 50 characters                 *)
(*   stop     the stripped text starts with an upper-case letter, holds a   *)
(*            colon and does not hold "creative"                            *)
(*   item     the checklist item of a line that starts with a bullet        *)
(*   consistent, partially                                                  *)
(*            the stripped text starts with "CONSISTENT" /                  *)
(*            "PARTIALLY_CONSISTENT"                                        *)
Lex(t) ==
    CASE t = "" ->
            [strip |-> "", lower |-> "", strategy |-> FALSE, words |-> {},
             money |-> <<>>, labels |-> <<>>, number |-> <<>>,
             dates |-> <<<<>>, <<>>, <<>>, <<>>, <<>>, <<>>>>,
             long |-> FALSE, stop |-> FALSE, item |-> <<>>,
             consistent |-> FALSE, partially |-> FALSE]
      [] t = "   " ->
            [strip |-> "", lower |-> "", strategy |-> FALSE, words |-> {},
             money |-> <<>>, labels |-> <<>>, number |-> <<>>,
             dates |-> <<<<>>, <<>>, <<>>, <<>>, <<>>, <<>>>>,
             long |-> FALSE, stop |-> FALSE, item |-> <<>>,
             consistent |-> FALSE, partially |-> FALSE]
      [] t = "2. Strategy Explainer" ->
            [strip |-> "2. Strategy Explainer",
             lower |-> "2. strategy explainer", strategy |-> TRUE,
             words |-> {}, money |-> <<>>, labels |-> <<>>, number |-> <<2>>,
             dates |-> <<<<>>, <<>>, <<>>, <<>>, <<>>, <<>>>>,
             long |-> FALSE, stop |-> FALSE, item |-> <<>>,
             consistent |-> FALSE, partially |-> FALSE]
      [] t = "Creative Checklist" ->
            [strip |-> "Creative Checklist", lower |-> "creative checklist",
             strategy |-> FALSE, words |-> {"checklist", "creative"},
             money |-> <<>>, labels |-> <<>>, number |-> <<>>,
             dates |-> <<<<>>, <<>>, <<>>, <<>>, <<>>, <<>>>>,
             long |-> FALSE, stop |-> FALSE, item |-> <<>>,
             consistent |-> FALSE, partially |-> FALSE]
      [] t = "Objective: Sales - Budget: $1,050" ->
            [strip |-> "Objective: Sales - Budget: $1,050",
             lower |-> "objective: sales - budget: $1,050",
             strategy |-> FALSE, words |-> {"budget", "objective", "sales"},
             money |-> <<[text |-> "$1,050", amount |-> 1050]>>,
             labels |-> <<>>, number |-> <<1050>>,
             dates |-> <<<<>>, <<>>, <<>>, <<>>, <<>>, <<>>>>,
             long |-> FALSE, stop |-> TRUE, item |-> <<>>,
             consistent |-> FALSE, partially |-> FALSE]
      [] t = "Impression share: $1,000 on Facebook" ->
            [strip |-> "Impression share: $1,000 on Facebook",
             lower |-> "impression share: $1,000 on facebook",
             strategy |-> FALSE, words |-> {"facebook", "impression"},
             money |-> <<[text |-> "$1,000", amount |-> 1000]>>,
             labels |-> <<>>, number |-> <<1000>>,
             dates |-> <<<<>>, <<>>, <<>>, <<>>, <<>>, <<>>>>,
             long |-> FALSE, stop |-> TRUE, item |-> <<>>,
             consistent |-> FALSE, partially |-> FALSE]
      [] t = "Fee: $50" ->
            [strip |-> "Fee: $50", lower |-> "fee: $50", strategy |-> FALSE,
             words |-> {}, money |-> <<[text |-> "$50", amount |-> 50]>>,
             labels |-> <<>>, number |-> <<50>>,
             dates |-> <<<<>>, <<>>, <<>>, <<>>, <<>>, <<>>>>,
             long |-> FALSE, stop |-> TRUE, item |-> <<>>,
             consistent |-> FALSE, partially |-> FALSE]
      [] t = "Setup: $100" ->
            [strip |-> "Setup: $100", lower |-> "setup: $100",
             strategy |-> FALSE, words |-> {},
             money |-> <<[text |-> "$100", amount |-> 100]>>,
             labels |-> <<>>, number |-> <<100>>,
             dates |-> <<<<>>, <<>>, <<>>, <<>>, <<>>, <<>>>>,
             long |-> FALSE, stop |-> TRUE, item |-> <<>>,
             consistent |-> FALSE, partially |-> FALSE]
      [] t = "Platform" ->
            [strip |-> "Platform", lower |-> "platform", strategy |-> FALSE,
             words |-> {"platform"}, money |-> <<>>, labels |-> <<>>,
             number |-> <<>>,
             dates |-> <<<<>>, <<>>, <<>>, <<>>, <<>>, <<>>>>,
             long |-> FALSE, stop |-> FALSE, item |-> <<>>,
             consistent |-> FALSE, partially |-> FALSE]
      [] t = "Budget" ->
            [strip |-> "Budget", lower |-> "budget", strategy |-> FALSE,
             words |-> {"budget"}, money |-> <<>>, labels |-> <<>>,
             number |-> <<>>,
             dates |-> <<<<>>, <<>>, <<>>, <<>>, <<>>, <<>>>>,
             long |-> FALSE, stop |-> FALSE, item |-> <<>>,
             consistent |-> FALSE, partially |-> FALSE]
      [] t = "Name" ->
            [strip |-> "Name", lower |-> "name", strategy |-> FALSE,
             words |-> {}, money |-> <<>>, labels |-> <<>>, number |-> <<>>,
             dates |-> <<<<>>, <<>>, <<>>, <<>>, <<>>, <<>>>>,
             long |-> FALSE, stop |-> FALSE, item |-> <<>>,
             consistent |-> FALSE, partially |-> FALSE]
      [] t = "Notes" ->
            [strip |-> "Notes", lower |-> "notes", strategy |-> FALSE,
             words |-> {}, money |-> <<>>, labels |-> <<>>, number |-> <<>>,
             dates |-> <<<<>>, <<>>, <<>>, <<>>, <<>>, <<>>>>,
             long |-> FALSE, stop |-> FALSE, item |-> <<>>,
             consistent |-> FALSE, partially |-> FALSE]
      [] t = " Facebook " ->
            [strip |-> "Facebook", lower |-> "facebook", strategy |-> FALSE,
             words |-> {"facebook"}, money |-> <<>>, labels |-> <<>>,
             number |-> <<>>,
             dates |-> <<<<>>, <<>>, <<>>, <<>>, <<>>, <<>>>>,
             long |-> FALSE, stop |-> FALSE, item |-> <<>>,
             consistent |-> FALSE, partially |-> FALSE]
      [] t = "$500" ->
            [strip |-> "$500", lower |-> "$500", strategy |-> FALSE,
             words |-> {}, money |-> <<[text |-> "$500", amount |-> 500]>>,
             labels |-> <<>>, number |-> <<500>>,
             dates |-> <<<<>>, <<>>, <<>>, <<>>, <<>>, <<>>>>,
             long |-> FALSE, stop |-> FALSE, item |-> <<>>,
             consistent |-> FALSE, partially |-> FALSE]
      [] t = "Meta (Facebook)" ->
            [strip |-> "Meta (Facebook)", lower |-> "meta (facebook)",
             strategy |-> FALSE, words |-> {"facebook", "meta"},
             money |-> <<>>, labels |-> <<>>, number |-> <<>>,
             dates |-> <<<<>>, <<>>, <<>>, <<>>, <<>>, <<>>>>,
             long |-> FALSE, stop |-> FALSE, item |-> <<>>,
             consistent |-> FALSE, partially |-> FALSE]
      [] t = "Google Search" ->
            [strip |-> "Google Search", lower |-> "google search",
             strategy |-> FALSE, words |-> {"google", "search"},
             money |-> <<>>, labels |-> <<>>, number |-> <<>>,
             dates |-> <<<<>>, <<>>, <<>>, <<>>, <<>>, <<>>>>,
             long |-> FALSE, stop |-> FALSE, item |-> <<>>,
             consistent |-> FALSE, partially |-> FALSE]
      [] t = "facebook" ->
            [strip |-> "facebook", lower |-> "facebook", strategy |-> FALSE,
             words |-> {"facebook"}, money |-> <<>>, labels |-> <<>>,
             number |-> <<>>,
             dates |-> <<<<>>, <<>>, <<>>, <<>>, <<>>, <<>>>>,
             long |-> FALSE, stop |-> FALSE, item |-> <<>>,
             consistent |-> FALSE, partially |-> FALSE]
      [] t = "meta (fb)" ->
            [strip |-> "meta (fb)", lower |-> "meta (fb)",
             strategy |-> FALSE, words |-> {"meta"}, money |-> <<>>,
             labels |-> <<>>, number |-> <<>>,
             dates |-> <<<<>>, <<>>, <<>>, <<>>, <<>>, <<>>>>,
             long |-> FALSE, stop |-> FALSE, item |-> <<>>,
             consistent |-> FALSE, partially |-> FALSE]
      [] t = "Channel: Facebook" ->
            [strip |-> "Channel: Facebook", lower |-> "channel: facebook",
             strategy |-> FALSE, words |-> {"channel", "facebook"},
             money |-> <<>>, labels |-> <<"Facebook">>, number |-> <<>>,
             dates |-> <<<<>>, <<>>, <<>>, <<>>, <<>>, <<>>>>,
             long |-> FALSE, stop |-> TRUE, item |-> <<>>,
             consistent |-> FALSE, partially |-> FALSE]
      [] t = "channel: facebook." ->
            [strip |-> "channel: facebook.", lower |-> "channel: facebook.",
             strategy |-> FALSE, words |-> {"channel", "facebook"},
             money |-> <<>>, labels |-> <<"facebook">>, number |-> <<>>,
             dates |-> <<<<>>, <<>>, <<>>, <<>>, <<>>, <<>>>>,
             long |-> FALSE, stop |-> FALSE, item |-> <<>>,
             consistent |-> FALSE, partially |-> FALSE]
      [] t = "Channel: Google Ads" ->
            [strip |-> "Channel: Google Ads",
             lower |-> "channel: google ads", strategy |-> FALSE,
             words |-> {"channel", "google"}, money |-> <<>>,
             labels |-> <<"Google Ads">>, number |-> <<>>,
             dates |-> <<<<>>, <<>>, <<>>, <<>>, <<>>, <<>>>>,
             long |-> FALSE, stop |-> TRUE, item |-> <<>>,
             consistent |-> FALSE, partially |-> FALSE]
      [] t = "- Channel: meta (fb);" ->
            [strip |-> "- Channel: meta (fb);",
             lower |-> "- channel: meta (fb);", strategy |-> FALSE,
             words |-> {"channel", "meta"}, money |-> <<>>,
             labels |-> <<"meta (fb)">>, number |-> <<>>,
             dates |-> <<<<>>, <<>>, <<>>, <<>>, <<>>, <<>>>>,
             long |-> FALSE, stop |-> FALSE,
             item |-> <<"Channel: meta (fb);">>, consistent |-> FALSE,
             partially |-> FALSE]
      [] t = "Channel: -" ->
            [strip |-> "Channel: -", lower |-> "channel: -",
             strategy |-> FALSE, words |-> {"channel"}, money |-> <<>>,
             labels |-> <<"">>, number |-> <<>>,
             dates |-> <<<<>>, <<>>, <<>>, <<>>, <<>>, <<>>>>,
             long |-> FALSE, stop |-> TRUE, item |-> <<>>,
             consistent |-> FALSE, partially |-> FALSE]
      [] t = "Product images and a short video" ->
            [strip |-> "Product images and a short video",
             lower |-> "product images and a short video",
             strategy |-> FALSE, words |-> {"image", "video"},
             money |-> <<>>, labels |-> <<>>, number |-> <<>>,
             dates |-> <<<<>>, <<>>, <<>>, <<>>, <<>>, <<>>>>,
             long |-> FALSE, stop |-> FALSE, item |-> <<>>,
             consistent |-> FALSE, partially |-> FALSE]
      [] t = "Banner ads" ->
            [strip |-> "Banner ads", lower |-> "banner ads",
             strategy |-> FALSE, words |-> {"banner"}, money |-> <<>>,
             labels |-> <<>>, number |-> <<>>,
             dates |-> <<<<>>, <<>>, <<>>, <<>>, <<>>, <<>>>>,
             long |-> FALSE, stop |-> FALSE, item |-> <<>>,
             consistent |-> FALSE, partially |-> FALSE]
      [] t = "Carousel cards for the feed" ->
            [strip |-> "Carousel cards for the feed",
             lower |-> "carousel cards for the feed", strategy |-> FALSE,
             words |-> {"carousel"}, money |-> <<>>, labels |-> <<>>,
             number |-> <<>>,
             dates |-> <<<<>>, <<>>, <<>>, <<>>, <<>>, <<>>>>,
             long |-> FALSE, stop |-> FALSE, item |-> <<>>,
             consistent |-> FALSE, partially |-> FALSE]
      [] t = "Product IMAGES 1080x1080" ->
            [strip |-> "Product IMAGES 1080x1080",
             lower |-> "product images 1080x1080", strategy |-> FALSE,
             words |-> {"image"}, money |-> <<>>, labels |-> <<>>,
             number |-> <<1080>>,
             dates |-> <<<<>>, <<>>, <<>>, <<>>, <<>>, <<>>>>,
             long |-> FALSE, stop |-> FALSE, item |-> <<>>,
             consistent |-> FALSE, partially |-> FALSE]
      [] t = "15s video" ->
            [strip |-> "15s video", lower |-> "15s video",
             strategy |-> FALSE, words |-> {"video"}, money |-> <<>>,
             labels |-> <<>>, number |-> <<15>>,
             dates |-> <<<<>>, <<>>, <<>>, <<>>, <<>>, <<>>>>,
             long |-> FALSE, stop |-> FALSE, item |-> <<>>,
             consistent |-> FALSE, partially |-> FALSE]
      [] t = "Logo files" ->
            [strip |-> "Logo files", lower |-> "logo files",
             strategy |-> FALSE, words |-> {}, money |-> <<>>,
             labels |-> <<>>, number |-> <<>>,
             dates |-> <<<<>>, <<>>, <<>>, <<>>, <<>>, <<>>>>,
             long |-> FALSE, stop |-> FALSE, item |-> <<>>,
             consistent |-> FALSE, partially |-> FALSE]
      [] t = "Campaign start: 2024-01-01" ->
            [strip |-> "Campaign start: 2024-01-01",
             lower |-> "campaign start: 2024-01-01", strategy |-> FALSE,
             words |-> {}, money |-> <<>>, labels |-> <<>>,
             number |-> <<2024>>,
             dates |-> <<<<"2024-01-01">>, <<>>, <<>>, <<>>, <<>>, <<>>>>,
             long |-> FALSE, stop |-> TRUE, item |-> <<>>,
             consistent |-> FALSE, partially |-> FALSE]
      [] t = "Campaign end: 2024-01-30" ->
            [strip |-> "Campaign end: 2024-01-30",
             lower |-> "campaign end: 2024-01-30", strategy |-> FALSE,
             words |-> {}, money |-> <<>>, labels |-> <<>>,
             number |-> <<2024>>,
             dates |-> <<<<>>, <<>>, <<"2024-01-30">>, <<>>, <<>>, <<>>>>,
             long |-> FALSE, stop |-> TRUE, item |-> <<>>,
             consistent |-> FALSE, partially |-> FALSE]
      [] t = "Campaign start: 2024-13-01" ->
            [strip |-> "Campaign start: 2024-13-01",
             lower |-> "campaign start: 2024-13-01", strategy |-> FALSE,
             words |-> {}, money |-> <<>>, labels |-> <<>>,
             number |-> <<2024>>,
             dates |-> <<<<"2024-13-01">>, <<>>, <<>>, <<>>, <<>>, <<>>>>,
             long |-> FALSE, stop |-> TRUE, item |-> <<>>,
             consistent |-> FALSE, partially |-> FALSE]
      [] t = "Duration: 2024-01-01 to 2024-01-29" ->
            [strip |-> "Duration: 2024-01-01 to 2024-01-29",
             lower |-> "duration: 2024-01-01 to 2024-01-29",
             strategy |-> FALSE, words |-> {}, money |-> <<>>,
             labels |-> <<>>, number |-> <<2024>>,
             dates |-> <<<<>>, <<>>, <<>>, <<>>, <<"2024-01-01", "2024-01-29">>, <<"2024-01-01", "2024-01-29">>>>,
             long |-> FALSE, stop |-> TRUE, item |-> <<>>,
             consistent |-> FALSE, partially |-> FALSE]
      [] t = "Our strategy concentrates the spend on Facebook to reach local buyers." ->
            [
             strip |-> "Our strategy concentrates the spend on Facebook to reach local buyers.",
             lower |-> "our strategy concentrates the spend on facebook to reach local buyers.",
             strategy |-> FALSE, words |-> {"facebook", "reach", "spend"},
             money |-> <<>>, labels |-> <<>>, number |-> <<>>,
             dates |-> <<<<>>, <<>>, <<>>, <<>>, <<>>, <<>>>>, long |-> TRUE,
             stop |-> FALSE, item |-> <<>>, consistent |-> FALSE,
             partially |-> FALSE]
      [] t = "- Banner ads" ->
            [strip |-> "- Banner ads", lower |-> "- banner ads",
             strategy |-> FALSE, words |-> {"banner"}, money |-> <<>>,
             labels |-> <<>>, number |-> <<>>,
             dates |-> <<<<>>, <<>>, <<>>, <<>>, <<>>, <<>>>>,
             long |-> FALSE, stop |-> FALSE, item |-> <<"Banner ads">>,
             consistent |-> FALSE, partially |-> FALSE]
      [] t = "Timeline: four weeks" ->
            [strip |-> "Timeline: four weeks",
             lower |-> "timeline: four weeks", strategy |-> FALSE,
             words |-> {}, money |-> <<>>, labels |-> <<>>, number |-> <<>>,
             dates |-> <<<<>>, <<>>, <<>>, <<>>, <<>>, <<>>>>,
             long |-> FALSE, stop |-> TRUE, item |-> <<>>,
             consistent |-> FALSE, partially |-> FALSE]
      [] t = "CONSISTENT: the strategy fits the brief" ->
            [strip |-> "CONSISTENT: the strategy fits the brief",
             lower |-> "consistent: the strategy fits the brief",
             strategy |-> FALSE, words |-> {}, money |-> <<>>,
             labels |-> <<>>, number |-> <<>>,
             dates |-> <<<<>>, <<>>, <<>>, <<>>, <<>>, <<>>>>,
             long |-> FALSE, stop |-> TRUE, item |-> <<>>,
             consistent |-> TRUE, partially |-> FALSE]
      [] t = "PARTIALLY_CONSISTENT: the budget is not mentioned" ->
            [strip |-> "PARTIALLY_CONSISTENT: the budget is not mentioned",
             lower |-> "partially_consistent: the budget is not mentioned",
             strategy |-> FALSE, words |-> {"budget"}, money |-> <<>>,
             labels |-> <<>>, number |-> <<>>,
             dates |-> <<<<>>, <<>>, <<>>, <<>>, <<>>, <<>>>>,
             long |-> FALSE, stop |-> TRUE, item |-> <<>>,
             consistent |-> FALSE, partially |-> TRUE]
      [] t = "INCONSISTENT: the strategy targets another market" ->
            [strip |-> "INCONSISTENT: the strategy targets another market",
             lower |-> "inconsistent: the strategy targets another market",
             strategy |-> FALSE, words |-> {}, money |-> <<>>,
             labels |-> <<>>, number |-> <<>>,
             dates |-> <<<<>>, <<>>, <<>>, <<>>, <<>>, <<>>>>,
             long |-> FALSE, stop |-> TRUE, item |-> <<>>,
             consistent |-> FALSE, partially |-> FALSE]
      [] t = "  CONSISTENT  " ->
            [strip |-> "CONSISTENT", lower |-> "consistent",
             strategy |-> FALSE, words |-> {}, money |-> <<>>,
             labels |-> <<>>, number |-> <<>>,
             dates |-> <<<<>>, <<>>, <<>>, <<>>, <<>>, <<>>>>,
             long |-> FALSE, stop |-> FALSE, item |-> <<>>,
             consistent |-> TRUE, partially |-> FALSE]
      [] t = "consistent with the brief" ->
            [strip |-> "consistent with the brief",
             lower |-> "consistent with the brief", strategy |-> FALSE,
             words |-> {}, money |-> <<>>, labels |-> <<>>, number |-> <<>>,
             dates |-> <<<<>>, <<>>, <<>>, <<>>, <<>>, <<>>>>,
             long |-> FALSE, stop |-> FALSE, item |-> <<>>,
             consistent |-> FALSE, partially |-> FALSE]
      [] t = "Production fee: $500" ->
            [strip |-> "Production fee: $500",
             lower |-> "production fee: $500", strategy |-> FALSE,
             words |-> {}, money |-> <<[text |-> "$500", amount |-> 500]>>,
             labels |-> <<>>, number |-> <<500>>,
             dates |-> <<<<>>, <<>>, <<>>, <<>>, <<>>, <<>>>>,
             long |-> FALSE, stop |-> TRUE, item |-> <<>>,
             consistent |-> FALSE, partially |-> FALSE]
      [] t = "We target sales on Facebook" ->
            [strip |-> "We target sales on Facebook",
             lower |-> "we target sales on facebook", strategy |-> FALSE,
             words |-> {"facebook", "sales"}, money |-> <<>>,
             labels |-> <<>>, number |-> <<>>,
             dates |-> <<<<>>, <<>>, <<>>, <<>>, <<>>, <<>>>>,
             long |-> FALSE, stop |-> FALSE, item |-> <<>>,
             consistent |-> FALSE, partially |-> FALSE]
      [] t = "We keep it simple" ->
            [strip |-> "We keep it simple", lower |-> "we keep it simple",
             strategy |-> FALSE, words |-> {}, money |-> <<>>,
             labels |-> <<>>, number |-> <<>>,
             dates |-> <<<<>>, <<>>, <<>>, <<>>, <<>>, <<>>>>,
             long |-> FALSE, stop |-> FALSE, item |-> <<>>,
             consistent |-> FALSE, partially |-> FALSE]
      [] t = "Creative Checklist: $1,000 production" ->
            [strip |-> "Creative Checklist: $1,000 production",
             lower |-> "creative checklist: $1,000 production",
             strategy |-> FALSE, words |-> {"checklist", "creative"},
             money |-> <<[text |-> "$1,000", amount |-> 1000]>>,
             labels |-> <<>>, number |-> <<1000>>,
             dates |-> <<<<>>, <<>>, <<>>, <<>>, <<>>, <<>>>>,
             long |-> FALSE, stop |-> FALSE, item |-> <<>>,
             consistent |-> FALSE, partially |-> FALSE]
      [] t = "-" ->
            [strip |-> "-", lower |-> "-", strategy |-> FALSE, words |-> {},
             money |-> <<>>, labels |-> <<>>, number |-> <<>>,
             dates |-> <<<<>>, <<>>, <<>>, <<>>, <<>>, <<>>>>,
             long |-> FALSE, stop |-> FALSE, item |-> <<>>,
             consistent |-> FALSE, partially |-> FALSE]
      [] t = "Start date: 2024-02-01" ->
            [strip |-> "Start date: 2024-02-01",
             lower |-> "start date: 2024-02-01", strategy |-> FALSE,
             words |-> {}, money |-> <<>>, labels |-> <<>>,
             number |-> <<2024>>,
             dates |-> <<<<>>, <<"2024-02-01">>, <<>>, <<>>, <<>>, <<>>>>,
             long |-> FALSE, stop |-> TRUE, item |-> <<>>,
             consistent |-> FALSE, partially |-> FALSE]
      [] t = "End date: 2024-02-28" ->
            [strip |-> "End date: 2024-02-28",
             lower |-> "end date: 2024-02-28", strategy |-> FALSE,
             words |-> {}, money |-> <<>>, labels |-> <<>>,
             number |-> <<2024>>,
             dates |-> <<<<>>, <<>>, <<>>, <<"2024-02-28">>, <<>>, <<>>>>,
             long |-> FALSE, stop |-> TRUE, item |-> <<>>,
             consistent |-> FALSE, partially |-> FALSE]
      [] t = "2024-05-01 then duration: 2024-06-01 to 2024-06-30" ->
            [strip |-> "2024-05-01 then duration: 2024-06-01 to 2024-06-30",
             lower |-> "2024-05-01 then duration: 2024-06-01 to 2024-06-30",
             strategy |-> FALSE, words |-> {}, money |-> <<>>,
             labels |-> <<>>, number |-> <<2024>>,
             dates |-> <<<<>>, <<>>, <<>>, <<>>, <<"2024-06-01", "2024-06-30">>, <<"2024-05-01", "2024-06-30">>>>,
             long |-> FALSE, stop |-> FALSE, item |-> <<>>,
             consistent |-> FALSE, partially |-> FALSE]
      [] t = "$0" ->
            [strip |-> "$0", lower |-> "$0", strategy |-> FALSE,
             words |-> {}, money |-> <<[text |-> "$0", amount |-> 0]>>,
             labels |-> <<>>, number |-> <<0>>,
             dates |-> <<<<>>, <<>>, <<>>, <<>>, <<>>, <<>>>>,
             long |-> FALSE, stop |-> FALSE, item |-> <<>>,
             consistent |-> FALSE, partially |-> FALSE]
      [] t = "instagram" ->
            [strip |-> "instagram", lower |-> "instagram",
             strategy |-> FALSE, words |-> {"instagram"}, money |-> <<>>,
             labels |-> <<>>, number |-> <<>>,
             dates |-> <<<<>>, <<>>, <<>>, <<>>, <<>>, <<>>>>,
             long |-> FALSE, stop |-> FALSE, item |-> <<>>,
             consistent |-> FALSE, partially |-> FALSE]
      [] t = "meta combined" ->
            [strip |-> "meta combined", lower |-> "meta combined",
             strategy |-> FALSE, words |-> {"meta"}, money |-> <<>>,
             labels |-> <<>>, number |-> <<>>,
             dates |-> <<<<>>, <<>>, <<>>, <<>>, <<>>, <<>>>>,
             long |-> FALSE, stop |-> FALSE, item |-> <<>>,
             consistent |-> FALSE, partially |-> FALSE]
      [] t = "meta (ig)" ->
            [strip |-> "meta (ig)", lower |-> "meta (ig)",
             strategy |-> FALSE, words |-> {"meta"}, money |-> <<>>,
             labels |-> <<>>, number |-> <<>>,
             dates |-> <<<<>>, <<>>, <<>>, <<>>, <<>>, <<>>>>,
             long |-> FALSE, stop |-> FALSE, item |-> <<>>,
             consistent |-> FALSE, partially |-> FALSE]
      [] t = "google search" ->
            [strip |-> "google search", lower |-> "google search",
             strategy |-> FALSE, words |-> {"google", "search"},
             money |-> <<>>, labels |-> <<>>, number |-> <<>>,
             dates |-> <<<<>>, <<>>, <<>>, <<>>, <<>>, <<>>>>,
             long |-> FALSE, stop |-> FALSE, item |-> <<>>,
             consistent |-> FALSE, partially |-> FALSE]
      [] t = "google display network" ->
            [strip |-> "google display network",
             lower |-> "google display network", strategy |-> FALSE,
             words |-> {"display", "google"}, money |-> <<>>,
             labels |-> <<>>, number |-> <<>>,
             dates |-> <<<<>>, <<>>, <<>>, <<>>, <<>>, <<>>>>,
             long |-> FALSE, stop |-> FALSE, item |-> <<>>,
             consistent |-> FALSE, partially |-> FALSE]
      [] t = "google responsive display" ->
            [strip |-> "google responsive display",
             lower |-> "google responsive display", strategy |-> FALSE,
             words |-> {"display", "google"}, money |-> <<>>,
             labels |-> <<>>, number |-> <<>>,
             dates |-> <<<<>>, <<>>, <<>>, <<>>, <<>>, <<>>>>,
             long |-> FALSE, stop |-> FALSE, item |-> <<>>,
             consistent |-> FALSE, partially |-> FALSE]
      [] t = "youtube" ->
            [strip |-> "youtube", lower |-> "youtube", strategy |-> FALSE,
             words |-> {"youtube"}, money |-> <<>>, labels |-> <<>>,
             number |-> <<>>,
             dates |-> <<<<>>, <<>>, <<>>, <<>>, <<>>, <<>>>>,
             long |-> FALSE, stop |-> FALSE, item |-> <<>>,
             consistent |-> FALSE, partially |-> FALSE]
      [] t = "tiktok" ->
            [strip |-> "tiktok", lower |-> "tiktok", strategy |-> FALSE,
             words |-> {"tiktok"}, money |-> <<>>, labels |-> <<>>,
             number |-> <<>>,
             dates |-> <<<<>>, <<>>, <<>>, <<>>, <<>>, <<>>>>,
             long |-> FALSE, stop |-> FALSE, item |-> <<>>,
             consistent |-> FALSE, partially |-> FALSE]
      [] t = "microsoft search" ->
            [strip |-> "microsoft search", lower |-> "microsoft search",
             strategy |-> FALSE, words |-> {"microsoft", "search"},
             money |-> <<>>, labels |-> <<>>, number |-> <<>>,
             dates |-> <<<<>>, <<>>, <<>>, <<>>, <<>>, <<>>>>,
             long |-> FALSE, stop |-> FALSE, item |-> <<>>,
             consistent |-> FALSE, partially |-> FALSE]
      [] t = "microsoft audience network" ->
            [strip |-> "microsoft audience network",
             lower |-> "microsoft audience network", strategy |-> FALSE,
             words |-> {"microsoft"}, money |-> <<>>, labels |-> <<>>,
             number |-> <<>>,
             dates |-> <<<<>>, <<>>, <<>>, <<>>, <<>>, <<>>>>,
             long |-> FALSE, stop |-> FALSE, item |-> <<>>,
             consistent |-> FALSE, partially |-> FALSE]
      [] t = "Channel: facebook" ->
            [strip |-> "Channel: facebook", lower |-> "channel: facebook",
             strategy |-> FALSE, words |-> {"channel", "facebook"},
             money |-> <<>>, labels |-> <<"facebook">>, number |-> <<>>,
             dates |-> <<<<>>, <<>>, <<>>, <<>>, <<>>, <<>>>>,
             long |-> FALSE, stop |-> TRUE, item |-> <<>>,
             consistent |-> FALSE, partially |-> FALSE]
      [] t = "Channel: instagram" ->
            [strip |-> "Channel: instagram", lower |-> "channel: instagram",
             strategy |-> FALSE, words |-> {"channel", "instagram"},
             money |-> <<>>, labels |-> <<"instagram">>, number |-> <<>>,
             dates |-> <<<<>>, <<>>, <<>>, <<>>, <<>>, <<>>>>,
             long |-> FALSE, stop |-> TRUE, item |-> <<>>,
             consistent |-> FALSE, partially |-> FALSE]
      [] t = "Channel: meta combined" ->
            [strip |-> "Channel: meta combined",
             lower |-> "channel: meta combined", strategy |-> FALSE,
             words |-> {"channel", "meta"}, money |-> <<>>,
             labels |-> <<"meta combined">>, number |-> <<>>,
             dates |-> <<<<>>, <<>>, <<>>, <<>>, <<>>, <<>>>>,
             long |-> FALSE, stop |-> TRUE, item |-> <<>>,
             consistent |-> FALSE, partially |-> FALSE]
      [] t = "Channel: meta (fb)" ->
            [strip |-> "Channel: meta (fb)", lower |-> "channel: meta (fb)",
             strategy |-> FALSE, words |-> {"channel", "meta"},
             money |-> <<>>, labels |-> <<"meta (fb)">>, number |-> <<>>,
             dates |-> <<<<>>, <<>>, <<>>, <<>>, <<>>, <<>>>>,
             long |-> FALSE, stop |-> TRUE, item |-> <<>>,
             consistent |-> FALSE, partially |-> FALSE]
      [] t = "Channel: meta (ig)" ->
            [strip |-> "Channel: meta (ig)", lower |-> "channel: meta (ig)",
             strategy |-> FALSE, words |-> {"channel", "meta"},
             money |-> <<>>, labels |-> <<"meta (ig)">>, number |-> <<>>,
             dates |-> <<<<>>, <<>>, <<>>, <<>>, <<>>, <<>>>>,
             long |-> FALSE, stop |-> TRUE, item |-> <<>>,
             consistent |-> FALSE, partially |-> FALSE]
      [] t = "Channel: google search" ->
            [strip |-> "Channel: google search",
             lower |-> "channel: google search", strategy |-> FALSE,
             words |-> {"channel", "google", "search"}, money |-> <<>>,
             labels |-> <<"google search">>, number |-> <<>>,
             dates |-> <<<<>>, <<>>, <<>>, <<>>, <<>>, <<>>>>,
             long |-> FALSE, stop |-> TRUE, item |-> <<>>,
             consistent |-> FALSE, partially |-> FALSE]
      [] t = "Channel: google display network" ->
            [strip |-> "Channel: google display network",
             lower |-> "channel: google display network", strategy |-> FALSE,
             words |-> {"channel", "display", "google"}, money |-> <<>>,
             labels |-> <<"google display network">>, number |-> <<>>,
             dates |-> <<<<>>, <<>>, <<>>, <<>>, <<>>, <<>>>>,
             long |-> FALSE, stop |-> TRUE, item |-> <<>>,
             consistent |-> FALSE, partially |-> FALSE]
      [] t = "Channel: google responsive display" ->
            [strip |-> "Channel: google responsive display",
             lower |-> "channel: google responsive display",
             strategy |-> FALSE, words |-> {"channel", "display", "google"},
             money |-> <<>>, labels |-> <<"google responsive display">>,
             number |-> <<>>,
             dates |-> <<<<>>, <<>>, <<>>, <<>>, <<>>, <<>>>>,
             long |-> FALSE, stop |-> TRUE, item |-> <<>>,
             consistent |-> FALSE, partially |-> FALSE]
      [] t = "Channel: youtube" ->
            [strip |-> "Channel: youtube", lower |-> "channel: youtube",
             strategy |-> FALSE, words |-> {"channel", "youtube"},
             money |-> <<>>, labels |-> <<"youtube">>, number |-> <<>>,
             dates |-> <<<<>>, <<>>, <<>>, <<>>, <<>>, <<>>>>,
             long |-> FALSE, stop |-> TRUE, item |-> <<>>,
             consistent |-> FALSE, partially |-> FALSE]
      [] t = "Channel: tiktok" ->
            [strip |-> "Channel: tiktok", lower |-> "channel: tiktok",
             strategy |-> FALSE, words |-> {"channel", "tiktok"},
             money |-> <<>>, labels |-> <<"tiktok">>, number |-> <<>>,
             dates |-> <<<<>>, <<>>, <<>>, <<>>, <<>>, <<>>>>,
             long |-> FALSE, stop |-> TRUE, item |-> <<>>,
             consistent |-> FALSE, partially |-> FALSE]
      [] t = "Channel: microsoft search" ->
            [strip |-> "Channel: microsoft search",
             lower |-> "channel: microsoft search", strategy |-> FALSE,
             words |-> {"channel", "microsoft", "search"}, money |-> <<>>,
             labels |-> <<"microsoft search">>, number |-> <<>>,
             dates |-> <<<<>>, <<>>, <<>>, <<>>, <<>>, <<>>>>,
             long |-> FALSE, stop |-> TRUE, item |-> <<>>,
             consistent |-> FALSE, partially |-> FALSE]
      [] t = "Channel: microsoft audience network" ->
            [strip |-> "Channel: microsoft audience network",
             lower |-> "channel: microsoft audience network",
             strategy |-> FALSE, words |-> {"channel", "microsoft"},
             money |-> <<>>, labels |-> <<"microsoft audience network">>,
             number |-> <<>>,
             dates |-> <<<<>>, <<>>, <<>>, <<>>, <<>>, <<>>>>,
             long |-> FALSE, stop |-> TRUE, item |-> <<>>,
             consistent |-> FALSE, partially |-> FALSE]
      [] t = "2. strategy explainer" ->
            [strip |-> "2. strategy explainer",
             lower |-> "2. strategy explainer", strategy |-> TRUE,
             words |-> {}, money |-> <<>>, labels |-> <<>>, number |-> <<2>>,
             dates |-> <<<<>>, <<>>, <<>>, <<>>, <<>>, <<>>>>,
             long |-> FALSE, stop |-> FALSE, item |-> <<>>,
             consistent |-> FALSE, partially |-> FALSE]
      [] t = "creative checklist" ->
            [strip |-> "creative checklist", lower |-> "creative checklist",
             strategy |-> FALSE, words |-> {"checklist", "creative"},
             money |-> <<>>, labels |-> <<>>, number |-> <<>>,
             dates |-> <<<<>>, <<>>, <<>>, <<>>, <<>>, <<>>>>,
             long |-> FALSE, stop |-> FALSE, item |-> <<>>,
             consistent |-> FALSE, partially |-> FALSE]
      [] t = "objective: sales - budget: $1,050" ->
            [strip |-> "objective: sales - budget: $1,050",
             lower |-> "objective: sales - budget: $1,050",
             strategy |-> FALSE, words |-> {"budget", "objective", "sales"},
             money |-> <<[text |-> "$1,050", amount |-> 1050]>>,
             labels |-> <<>>, number |-> <<1050>>,
             dates |-> <<<<>>, <<>>, <<>>, <<>>, <<>>, <<>>>>,
             long |-> FALSE, stop |-> FALSE, item |-> <<>>,
             consistent |-> FALSE, partially |-> FALSE]
      [] t = "impression share: $1,000 on facebook" ->
            [strip |-> "impression share: $1,000 on facebook",
             lower |-> "impression share: $1,000 on facebook",
             strategy |-> FALSE, words |-> {"facebook", "impression"},
             money |-> <<[text |-> "$1,000", amount |-> 1000]>>,
             labels |-> <<>>, number |-> <<1000>>,
             dates |-> <<<<>>, <<>>, <<>>, <<>>, <<>>, <<>>>>,
             long |-> FALSE, stop |-> FALSE, item |-> <<>>,
             consistent |-> FALSE, partially |-> FALSE]
      [] t = "fee: $50" ->
            [strip |-> "fee: $50", lower |-> "fee: $50", strategy |-> FALSE,
             words |-> {}, money |-> <<[text |-> "$50", amount |-> 50]>>,
             labels |-> <<>>, number |-> <<50>>,
             dates |-> <<<<>>, <<>>, <<>>, <<>>, <<>>, <<>>>>,
             long |-> FALSE, stop |-> FALSE, item |-> <<>>,
             consistent |-> FALSE, partially |-> FALSE]
      [] t = "setup: $100" ->
            [strip |-> "setup: $100", lower |-> "setup: $100",
             strategy |-> FALSE, words |-> {},
             money |-> <<[text |-> "$100", amount |-> 100]>>,
             labels |-> <<>>, number |-> <<100>>,
             dates |-> <<<<>>, <<>>, <<>>, <<>>, <<>>, <<>>>>,
             long |-> FALSE, stop |-> FALSE, item |-> <<>>,
             consistent |-> FALSE, partially |-> FALSE]
      [] t = "platform" ->
            [strip |-> "platform", lower |-> "platform", strategy |-> FALSE,
             words |-> {"platform"}, money |-> <<>>, labels |-> <<>>,
             number |-> <<>>,
             dates |-> <<<<>>, <<>>, <<>>, <<>>, <<>>, <<>>>>,
             long |-> FALSE, stop |-> FALSE, item |-> <<>>,
             consistent |-> FALSE, partially |-> FALSE]
      [] t = "budget" ->
            [strip |-> "budget", lower |-> "budget", strategy |-> FALSE,
             words |-> {"budget"}, money |-> <<>>, labels |-> <<>>,
             number |-> <<>>,
             dates |-> <<<<>>, <<>>, <<>>, <<>>, <<>>, <<>>>>,
             long |-> FALSE, stop |-> FALSE, item |-> <<>>,
             consistent |-> FALSE, partially |-> FALSE]
      [] t = "name" ->
            [strip |-> "name", lower |-> "name", strategy |-> FALSE,
             words |-> {}, money |-> <<>>, labels |-> <<>>, number |-> <<>>,
             dates |-> <<<<>>, <<>>, <<>>, <<>>, <<>>, <<>>>>,
             long |-> FALSE, stop |-> FALSE, item |-> <<>>,
             consistent |-> FALSE, partially |-> FALSE]
      [] t = "notes" ->
            [strip |-> "notes", lower |-> "notes", strategy |-> FALSE,
             words |-> {}, money |-> <<>>, labels |-> <<>>, number |-> <<>>,
             dates |-> <<<<>>, <<>>, <<>>, <<>>, <<>>, <<>>>>,
             long |-> FALSE, stop |-> FALSE, item |-> <<>>,
             consistent |-> FALSE, partially |-> FALSE]
      [] t = "Facebook" ->
            [strip |-> "Facebook", lower |-> "facebook", strategy |-> FALSE,
             words |-> {"facebook"}, money |-> <<>>, labels |-> <<>>,
             number |-> <<>>,
             dates |-> <<<<>>, <<>>, <<>>, <<>>, <<>>, <<>>>>,
             long |-> FALSE, stop |-> FALSE, item |-> <<>>,
             consistent |-> FALSE, partially |-> FALSE]
      [] t = "meta (facebook)" ->
            [strip |-> "meta (facebook)", lower |-> "meta (facebook)",
             strategy |-> FALSE, words |-> {"facebook", "meta"},
             money |-> <<>>, labels |-> <<>>, number |-> <<>>,
             dates |-> <<<<>>, <<>>, <<>>, <<>>, <<>>, <<>>>>,
             long |-> FALSE, stop |-> FALSE, item |-> <<>>,
             consistent |-> FALSE, partially |-> FALSE]
      [] t = "channel: facebook" ->
            [strip |-> "channel: facebook", lower |-> "channel: facebook",
             strategy |-> FALSE, words |-> {"channel", "facebook"},
             money |-> <<>>, labels |-> <<"facebook">>, number |-> <<>>,
             dates |-> <<<<>>, <<>>, <<>>, <<>>, <<>>, <<>>>>,
             long |-> FALSE, stop |-> FALSE, item |-> <<>>,
             consistent |-> FALSE, partially |-> FALSE]
      [] t = "channel: google ads" ->
            [strip |-> "channel: google ads",
             lower |-> "channel: google ads", strategy |-> FALSE,
             words |-> {"channel", "google"}, money |-> <<>>,
             labels |-> <<"google ads">>, number |-> <<>>,
             dates |-> <<<<>>, <<>>, <<>>, <<>>, <<>>, <<>>>>,
             long |-> FALSE, stop |-> FALSE, item |-> <<>>,
             consistent |-> FALSE, partially |-> FALSE]
      [] t = "Google Ads" ->
            [strip |-> "Google Ads", lower |-> "google ads",
             strategy |-> FALSE, words |-> {"google"}, money |-> <<>>,
             labels |-> <<>>, number |-> <<>>,
             dates |-> <<<<>>, <<>>, <<>>, <<>>, <<>>, <<>>>>,
             long |-> FALSE, stop |-> FALSE, item |-> <<>>,
             consistent |-> FALSE, partially |-> FALSE]
      [] t = "google ads" ->
            [strip |-> "google ads", lower |-> "google ads",
             strategy |-> FALSE, words |-> {"google"}, money |-> <<>>,
             labels |-> <<>>, number |-> <<>>,
             dates |-> <<<<>>, <<>>, <<>>, <<>>, <<>>, <<>>>>,
             long |-> FALSE, stop |-> FALSE, item |-> <<>>,
             consistent |-> FALSE, partially |-> FALSE]
      [] t = "- channel: meta (fb);" ->
            [strip |-> "- channel: meta (fb);",
             lower |-> "- channel: meta (fb);", strategy |-> FALSE,
             words |-> {"channel", "meta"}, money |-> <<>>,
             labels |-> <<"meta (fb)">>, number |-> <<>>,
             dates |-> <<<<>>, <<>>, <<>>, <<>>, <<>>, <<>>>>,
             long |-> FALSE, stop |-> FALSE,
             item |-> <<"channel: meta (fb);">>, consistent |-> FALSE,
             partially |-> FALSE]
      [] t = "Channel: meta (fb);" ->
            [strip |-> "Channel: meta (fb);",
             lower |-> "channel: meta (fb);", strategy |-> FALSE,
             words |-> {"channel", "meta"}, money |-> <<>>,
             labels |-> <<"meta (fb)">>, number |-> <<>>,
             dates |-> <<<<>>, <<>>, <<>>, <<>>, <<>>, <<>>>>,
             long |-> FALSE, stop |-> TRUE, item |-> <<>>,
             consistent |-> FALSE, partially |-> FALSE]
      [] t = "channel: -" ->
            [strip |-> "channel: -", lower |-> "channel: -",
             strategy |-> FALSE, words |-> {"channel"}, money |-> <<>>,
             labels |-> <<"">>, number |-> <<>>,
             dates |-> <<<<>>, <<>>, <<>>, <<>>, <<>>, <<>>>>,
             long |-> FALSE, stop |-> FALSE, item |-> <<>>,
             consistent |-> FALSE, partially |-> FALSE]
      [] t = "product images and a short video" ->
            [strip |-> "product images and a short video",
             lower |-> "product images and a short video",
             strategy |-> FALSE, words |-> {"image", "video"},
             money |-> <<>>, labels |-> <<>>, number |-> <<>>,
             dates |-> <<<<>>, <<>>, <<>>, <<>>, <<>>, <<>>>>,
             long |-> FALSE, stop |-> FALSE, item |-> <<>>,
             consistent |-> FALSE, partially |-> FALSE]
      [] t = "banner ads" ->
            [strip |-> "banner ads", lower |-> "banner ads",
             strategy |-> FALSE, words |-> {"banner"}, money |-> <<>>,
             labels |-> <<>>, number |-> <<>>,
             dates |-> <<<<>>, <<>>, <<>>, <<>>, <<>>, <<>>>>,
             long |-> FALSE, stop |-> FALSE, item |-> <<>>,
             consistent |-> FALSE, partially |-> FALSE]
      [] t = "carousel cards for the feed" ->
            [strip |-> "carousel cards for the feed",
             lower |-> "carousel cards for the feed", strategy |-> FALSE,
             words |-> {"carousel"}, money |-> <<>>, labels |-> <<>>,
             number |-> <<>>,
             dates |-> <<<<>>, <<>>, <<>>, <<>>, <<>>, <<>>>>,
             long |-> FALSE, stop |-> FALSE, item |-> <<>>,
             consistent |-> FALSE, partially |-> FALSE]
      [] t = "product images 1080x1080" ->
            [strip |-> "product images 1080x1080",
             lower |-> "product images 1080x1080", strategy |-> FALSE,
             words |-> {"image"}, money |-> <<>>, labels |-> <<>>,
             number |-> <<1080>>,
             dates |-> <<<<>>, <<>>, <<>>, <<>>, <<>>, <<>>>>,
             long |-> FALSE, stop |-> FALSE, item |-> <<>>,
             consistent |-> FALSE, partially |-> FALSE]
      [] t = "logo files" ->
            [strip |-> "logo files", lower |-> "logo files",
             strategy |-> FALSE, words |-> {}, money |-> <<>>,
             labels |-> <<>>, number |-> <<>>,
             dates |-> <<<<>>, <<>>, <<>>, <<>>, <<>>, <<>>>>,
             long |-> FALSE, stop |-> FALSE, item |-> <<>>,
             consistent |-> FALSE, partially |-> FALSE]
      [] t = "campaign start: 2024-01-01" ->
            [strip |-> "campaign start: 2024-01-01",
             lower |-> "campaign start: 2024-01-01", strategy |-> FALSE,
             words |-> {}, money |-> <<>>, labels |-> <<>>,
             number |-> <<2024>>,
             dates |-> <<<<"2024-01-01">>, <<>>, <<>>, <<>>, <<>>, <<>>>>,
             long |-> FALSE, stop |-> FALSE, item |-> <<>>,
             consistent |-> FALSE, partially |-> FALSE]
      [] t = "campaign end: 2024-01-30" ->
            [strip |-> "campaign end: 2024-01-30",
             lower |-> "campaign end: 2024-01-30", strategy |-> FALSE,
             words |-> {}, money |-> <<>>, labels |-> <<>>,
             number |-> <<2024>>,
             dates |-> <<<<>>, <<>>, <<"2024-01-30">>, <<>>, <<>>, <<>>>>,
             long |-> FALSE, stop |-> FALSE, item |-> <<>>,
             consistent |-> FALSE, partially |-> FALSE]
      [] t = "campaign start: 2024-13-01" ->
            [strip |-> "campaign start: 2024-13-01",
             lower |-> "campaign start: 2024-13-01", strategy |-> FALSE,
             words |-> {}, money |-> <<>>, labels |-> <<>>,
             number |-> <<2024>>,
             dates |-> <<<<"2024-13-01">>, <<>>, <<>>, <<>>, <<>>, <<>>>>,
             long |-> FALSE, stop |-> FALSE, item |-> <<>>,
             consistent |-> FALSE, partially |-> FALSE]
      [] t = "duration: 2024-01-01 to 2024-01-29" ->
            [strip |-> "duration: 2024-01-01 to 2024-01-29",
             lower |-> "duration: 2024-01-01 to 2024-01-29",
             strategy |-> FALSE, words |-> {}, money |-> <<>>,
             labels |-> <<>>, number |-> <<2024>>,
             dates |-> <<<<>>, <<>>, <<>>, <<>>, <<"2024-01-01", "2024-01-29">>, <<"2024-01-01", "2024-01-29">>>>,
             long |-> FALSE, stop |-> FALSE, item |-> <<>>,
             consistent |-> FALSE, partially |-> FALSE]
      [] t = "our strategy concentrates the spend on facebook to reach local buyers." ->
            [
             strip |-> "our strategy concentrates the spend on facebook to reach local buyers.",
             lower |-> "our strategy concentrates the spend on facebook to reach local buyers.",
             strategy |-> FALSE, words |-> {"facebook", "reach", "spend"},
             money |-> <<>>, labels |-> <<>>, number |-> <<>>,
             dates |-> <<<<>>, <<>>, <<>>, <<>>, <<>>, <<>>>>, long |-> TRUE,
             stop |-> FALSE, item |-> <<>>, consistent |-> FALSE,
             partially |-> FALSE]
      [] t = "- banner ads" ->
            [strip |-> "- banner ads", lower |-> "- banner ads",
             strategy |-> FALSE, words |-> {"banner"}, money |-> <<>>,
             labels |-> <<>>, number |-> <<>>,
             dates |-> <<<<>>, <<>>, <<>>, <<>>, <<>>, <<>>>>,
             long |-> FALSE, stop |-> FALSE, item |-> <<"banner ads">>,
             consistent |-> FALSE, partially |-> FALSE]
      [] t = "timeline: four weeks" ->
            [strip |-> "timeline: four weeks",
             lower |-> "timeline: four weeks", strategy |-> FALSE,
             words |-> {}, money |-> <<>>, labels |-> <<>>, number |-> <<>>,
             dates |-> <<<<>>, <<>>, <<>>, <<>>, <<>>, <<>>>>,
             long |-> FALSE, stop |-> FALSE, item |-> <<>>,
             consistent |-> FALSE, partially |-> FALSE]
      [] t = "consistent: the strategy fits the brief" ->
            [strip |-> "consistent: the strategy fits the brief",
             lower |-> "consistent: the strategy fits the brief",
             strategy |-> FALSE, words |-> {}, money |-> <<>>,
             labels |-> <<>>, number |-> <<>>,
             dates |-> <<<<>>, <<>>, <<>>, <<>>, <<>>, <<>>>>,
             long |-> FALSE, stop |-> FALSE, item |-> <<>>,
             consistent |-> FALSE, partially |-> FALSE]
      [] t = "partially_consistent: the budget is not mentioned" ->
            [strip |-> "partially_consistent: the budget is not mentioned",
             lower |-> "partially_consistent: the budget is not mentioned",
             strategy |-> FALSE, words |-> {"budget"}, money |-> <<>>,
             labels |-> <<>>, number |-> <<>>,
             dates |-> <<<<>>, <<>>, <<>>, <<>>, <<>>, <<>>>>,
             long |-> FALSE, stop |-> FALSE, item |-> <<>>,
             consistent |-> FALSE, partially |-> FALSE]
      [] t = "inconsistent: the strategy targets another market" ->
            [strip |-> "inconsistent: the strategy targets another market",
             lower |-> "inconsistent: the strategy targets another market",
             strategy |-> FALSE, words |-> {}, money |-> <<>>,
             labels |-> <<>>, number |-> <<>>,
             dates |-> <<<<>>, <<>>, <<>>, <<>>, <<>>, <<>>>>,
             long |-> FALSE, stop |-> FALSE, item |-> <<>>,
             consistent |-> FALSE, partially |-> FALSE]
      [] t = "CONSISTENT" ->
            [strip |-> "CONSISTENT", lower |-> "consistent",
             strategy |-> FALSE, words |-> {}, money |-> <<>>,
             labels |-> <<>>, number |-> <<>>,
             dates |-> <<<<>>, <<>>, <<>>, <<>>, <<>>, <<>>>>,
             long |-> FALSE, stop |-> FALSE, item |-> <<>>,
             consistent |-> TRUE, partially |-> FALSE]
      [] t = "consistent" ->
            [strip |-> "consistent", lower |-> "consistent",
             strategy |-> FALSE, words |-> {}, money |-> <<>>,
             labels |-> <<>>, number |-> <<>>,
             dates |-> <<<<>>, <<>>, <<>>, <<>>, <<>>, <<>>>>,
             long |-> FALSE, stop |-> FALSE, item |-> <<>>,
             consistent |-> FALSE, partially |-> FALSE]
      [] t = "production fee: $500" ->
            [strip |-> "production fee: $500",
             lower |-> "production fee: $500", strategy |-> FALSE,
             words |-> {}, money |-> <<[text |-> "$500", amount |-> 500]>>,
             labels |-> <<>>, number |-> <<500>>,
             dates |-> <<<<>>, <<>>, <<>>, <<>>, <<>>, <<>>>>,
             long |-> FALSE, stop |-> FALSE, item |-> <<>>,
             consistent |-> FALSE, partially |-> FALSE]
      [] t = "we target sales on facebook" ->
            [strip |-> "we target sales on facebook",
             lower |-> "we target sales on facebook", strategy |-> FALSE,
             words |-> {"facebook", "sales"}, money |-> <<>>,
             labels |-> <<>>, number |-> <<>>,
             dates |-> <<<<>>, <<>>, <<>>, <<>>, <<>>, <<>>>>,
             long |-> FALSE, stop |-> FALSE, item |-> <<>>,
             consistent |-> FALSE, partially |-> FALSE]
      [] t = "we keep it simple" ->
            [strip |-> "we keep it simple", lower |-> "we keep it simple",
             strategy |-> FALSE, words |-> {}, money |-> <<>>,
             labels |-> <<>>, number |-> <<>>,
             dates |-> <<<<>>, <<>>, <<>>, <<>>, <<>>, <<>>>>,
             long |-> FALSE, stop |-> FALSE, item |-> <<>>,
             consistent |-> FALSE, partially |-> FALSE]
      [] t = "creative checklist: $1,000 production" ->
            [strip |-> "creative checklist: $1,000 production",
             lower |-> "creative checklist: $1,000 production",
             strategy |-> FALSE, words |-> {"checklist", "creative"},
             money |-> <<[text |-> "$1,000", amount |-> 1000]>>,
             labels |-> <<>>, number |-> <<1000>>,
             dates |-> <<<<>>, <<>>, <<>>, <<>>, <<>>, <<>>>>,
             long |-> FALSE, stop |-> FALSE, item |-> <<>>,
             consistent |-> FALSE, partially |-> FALSE]
      [] t = "start date: 2024-02-01" ->
            [strip |-> "start date: 2024-02-01",
             lower |-> "start date: 2024-02-01", strategy |-> FALSE,
             words |-> {}, money |-> <<>>, labels |-> <<>>,
             number |-> <<2024>>,
             dates |-> <<<<>>, <<"2024-02-01">>, <<>>, <<>>, <<>>, <<>>>>,
             long |-> FALSE, stop |-> FALSE, item |-> <<>>,
             consistent |-> FALSE, partially |-> FALSE]
      [] t = "end date: 2024-02-28" ->
            [strip |-> "end date: 2024-02-28",
             lower |-> "end date: 2024-02-28", strategy |-> FALSE,
             words |-> {}, money |-> <<>>, labels |-> <<>>,
             number |-> <<2024>>,
             dates |-> <<<<>>, <<>>, <<>>, <<"2024-02-28">>, <<>>, <<>>>>,
             long |-> FALSE, stop |-> FALSE, item |-> <<>>,
             consistent |-> FALSE, partially |-> FALSE]
      [] t = "channel: instagram" ->
            [strip |-> "channel: instagram", lower |-> "channel: instagram",
             strategy |-> FALSE, words |-> {"channel", "instagram"},
             money |-> <<>>, labels |-> <<"instagram">>, number |-> <<>>,
             dates |-> <<<<>>, <<>>, <<>>, <<>>, <<>>, <<>>>>,
             long |-> FALSE, stop |-> FALSE, item |-> <<>>,
             consistent |-> FALSE, partially |-> FALSE]
      [] t = "channel: meta combined" ->
            [strip |-> "channel: meta combined",
             lower |-> "channel: meta combined", strategy |-> FALSE,
             words |-> {"channel", "meta"}, money |-> <<>>,
             labels |-> <<"meta combined">>, number |-> <<>>,
             dates |-> <<<<>>, <<>>, <<>>, <<>>, <<>>, <<>>>>,
             long |-> FALSE, stop |-> FALSE, item |-> <<>>,
             consistent |-> FALSE, partially |-> FALSE]
      [] t = "channel: meta (fb)" ->
            [strip |-> "channel: meta (fb)", lower |-> "channel: meta (fb)",
             strategy |-> FALSE, words |-> {"channel", "meta"},
             money |-> <<>>, labels |-> <<"meta (fb)">>, number |-> <<>>,
             dates |-> <<<<>>, <<>>, <<>>, <<>>, <<>>, <<>>>>,
             long |-> FALSE, stop |-> FALSE, item |-> <<>>,
             consistent |-> FALSE, partially |-> FALSE]
      [] t = "channel: meta (ig)" ->
            [strip |-> "channel: meta (ig)", lower |-> "channel: meta (ig)",
             strategy |-> FALSE, words |-> {"channel", "meta"},
             money |-> <<>>, labels |-> <<"meta (ig)">>, number |-> <<>>,
             dates |-> <<<<>>, <<>>, <<>>, <<>>, <<>>, <<>>>>,
             long |-> FALSE, stop |-> FALSE, item |-> <<>>,
             consistent |-> FALSE, partially |-> FALSE]
      [] t = "channel: google search" ->
            [strip |-> "channel: google search",
             lower |-> "channel: google search", strategy |-> FALSE,
             words |-> {"channel", "google", "search"}, money |-> <<>>,
             labels |-> <<"google search">>, number |-> <<>>,
             dates |-> <<<<>>, <<>>, <<>>, <<>>, <<>>, <<>>>>,
             long |-> FALSE, stop |-> FALSE, item |-> <<>>,
             consistent |-> FALSE, partially |-> FALSE]
      [] t = "channel: google display network" ->
            [strip |-> "channel: google display network",
             lower |-> "channel: google display network", strategy |-> FALSE,
             words |-> {"channel", "display", "google"}, money |-> <<>>,
             labels |-> <<"google display network">>, number |-> <<>>,
             dates |-> <<<<>>, <<>>, <<>>, <<>>, <<>>, <<>>>>,
             long |-> FALSE, stop |-> FALSE, item |-> <<>>,
             consistent |-> FALSE, partially |-> FALSE]
      [] t = "channel: google responsive display" ->
            [strip |-> "channel: google responsive display",
             lower |-> "channel: google responsive display",
             strategy |-> FALSE, words |-> {"channel", "display", "google"},
             money |-> <<>>, labels |-> <<"google responsive display">>,
             number |-> <<>>,
             dates |-> <<<<>>, <<>>, <<>>, <<>>, <<>>, <<>>>>,
             long |-> FALSE, stop |-> FALSE, item |-> <<>>,
             consistent |-> FALSE, partially |-> FALSE]
      [] t = "channel: youtube" ->
            [strip |-> "channel: youtube", lower |-> "channel: youtube",
             strategy |-> FALSE, words |-> {"channel", "youtube"},
             money |-> <<>>, labels |-> <<"youtube">>, number |-> <<>>,
             dates |-> <<<<>>, <<>>, <<>>, <<>>, <<>>, <<>>>>,
             long |-> FALSE, stop |-> FALSE, item |-> <<>>,
             consistent |-> FALSE, partially |-> FALSE]
      [] t = "channel: tiktok" ->
            [strip |-> "channel: tiktok", lower |-> "channel: tiktok",
             strategy |-> FALSE, words |-> {"channel", "tiktok"},
             money |-> <<>>, labels |-> <<"tiktok">>, number |-> <<>>,
             dates |-> <<<<>>, <<>>, <<>>, <<>>, <<>>, <<>>>>,
             long |-> FALSE, stop |-> FALSE, item |-> <<>>,
             consistent |-> FALSE, partially |-> FALSE]
      [] t = "channel: microsoft search" ->
            [strip |-> "channel: microsoft search",
             lower |-> "channel: microsoft search", strategy |-> FALSE,
             words |-> {"channel", "microsoft", "search"}, money |-> <<>>,
             labels |-> <<"microsoft search">>, number |-> <<>>,
             dates |-> <<<<>>, <<>>, <<>>, <<>>, <<>>, <<>>>>,
             long |-> FALSE, stop |-> FALSE, item |-> <<>>,
             consistent |-> FALSE, partially |-> FALSE]
      [] t = "channel: microsoft audience network" ->
            [strip |-> "channel: microsoft audience network",
             lower |-> "channel: microsoft audience network",
             strategy |-> FALSE, words |-> {"channel", "microsoft"},
             money |-> <<>>, labels |-> <<"microsoft audience network">>,
             number |-> <<>>,
             dates |-> <<<<>>, <<>>, <<>>, <<>>, <<>>, <<>>>>,
             long |-> FALSE, stop |-> FALSE, item |-> <<>>,
             consistent |-> FALSE, partially |-> FALSE]
      [] t = "channel: meta (fb);" ->
            [strip |-> "channel: meta (fb);",
             lower |-> "channel: meta (fb);", strategy |-> FALSE,
             words |-> {"channel", "meta"}, money |-> <<>>,
             labels |-> <<"meta (fb)">>, number |-> <<>>,
             dates |-> <<<<>>, <<>>, <<>>, <<>>, <<>>, <<>>>>,
             long |-> FALSE, stop |-> FALSE, item |-> <<>>,
             consistent |-> FALSE, partially |-> FALSE]

Strip(t) == Lex(t).strip

\* str.lower() of a stripped text
Lower(t) == Lex(t).lower

\* `kw in text.lower()`
Contains(t, kw) == kw \in Lex(t).words


----------------------------------------------------------------------------
(* Helpers on sequences                                                    *)

RECURSIVE SelectTexts(_)
\* the stripped texts of a list that are not empty after strip()
SelectTexts(ts) ==
    IF ts = <<>> THEN <<>>
    ELSE IF Strip(Head(ts)) # ""
         THEN <<Strip(Head(ts))>> \o SelectTexts(Tail(ts))
         ELSE SelectTexts(Tail(ts))

RECURSIVE Flatten(_)
\* the concatenation of a list of lists
Flatten(ss) == IF ss = <<>> THEN <<>> ELSE Head(ss) \o Flatten(Tail(ss))

RECURSIVE SumAmounts(_)
\* sum(item['amount'] for item in items)
SumAmounts(items) ==
    IF items = <<>> THEN 0 ELSE Head(items).amount + SumAmounts(Tail(items))

Abs(x) == IF x < 0 THEN -x ELSE x

\* the sequences over S of length at most n
SeqsUpTo(S, n) == UNION {[1..k -> S] : k \in 0..n}

ValidationResult(name, status, details, expected, actual) ==
    [check_name |-> name, status |-> status, details |-> details,
     expected |-> expected, actual |-> actual]

----------------------------------------------------------------------------
(* CurrencyExtractor.extract_currency_amounts_from_text                    *)

\* paragraphs first, then the cells of every table row by row
Linearize(paras, tabs) ==
    SelectTexts(paras) \o SelectTexts(Flatten(Flatten(tabs)))

\* re.search(pattern, text_lower) for some strategy-explainer pattern
IsStrategyHeading(t) == Lex(t).strategy

\* 'creative' in text_lower and ('checklist' ... or 'requirements' ...)
IsChecklistHeading(t) ==
    Contains(t, "creative")
    /\ (Contains(t, "checklist") \/ Contains(t, "requirements"))

\* a variant: nothing from the checklist heading on is taken up again
ShouldProcessBeforeStrategyOnly(k, sidx, cidx) ==
    \/ sidx = None
    \/ k < sidx

\* should_process of the second pass, for position k
ShouldProcess(k, sidx, cidx) ==
    \/ sidx = None
    \/ k < sidx
    \/ (cidx # None /\ k >= cidx)

\* the keywords occurring in the context of position k: the previous
\* element, the element and the next element, lower-cased
ContextWords(elems, k) ==
    (IF k > 1 THEN Lex(elems[k - 1]).words ELSE {})
    \cup Lex(elems[k]).words
    \cup (IF k < Len(elems) THEN Lex(elems[k + 1]).words ELSE {})

\* the first PLATFORM_KEYWORDS entry found in the context, or "None"
FirstPlatform(ws) ==
    IF \E n \in DOMAIN PLATFORM_KEYWORDS : PLATFORM_KEYWORDS[n] \in ws
    THEN PLATFORM_KEYWORDS[
             CHOOSE n \in DOMAIN PLATFORM_KEYWORDS :
                 /\ PLATFORM_KEYWORDS[n] \in ws
                 /\ \A m \in 1..(n - 1) : PLATFORM_KEYWORDS[m] \notin ws]
    ELSE "None"

\* the CurrencyMentions of the element at position k
MentionsOf(elems, k) ==
    LET ws == ContextWords(elems, k)
        ms == Lex(elems[k]).money
    IN  [n \in DOMAIN ms |->
            [amount |-> ms[n].amount,
             original_text |-> ms[n].text,
             context |-> elems[k],
             platform |-> FirstPlatform(ws),
             near_objective |-> (ws \cap OBJECTIVE_KEYWORDS) # {},
             near_impressions |-> ("impression" \in ws \/ "reach" \in ws),
             before_strategy |-> TRUE]]

----------------------------------------------------------------------------
(* MediaPlanValidator.validate_budget_from_text                            *)

\* 100 <= item['amount'] <= expected_budget * 2
InRange(item, expected) ==
    100 <= item.amount /\ item.amount <= expected * 2

\* a variant: the near-impressions tag is forgotten
LikelyNearObjectiveOnly(data, expected) ==
    SelectSeq(data, LAMBDA item :
        item.near_objective /\ InRange(item, expected))
\* the first filter: near an objective or impressions, and in range
Likely(data, expected) ==
    SelectSeq(data, LAMBDA item :
        (item.near_objective \/ item.near_impressions)
        /\ InRange(item, expected))

\* the fallback: every mention in range
AllInRange(data, expected) ==
    SelectSeq(data, LAMBDA item : InRange(item, expected))

\* likely_budgets after the fallback
LikelyBudgets(data, expected) ==
    IF Likely(data, expected) # <<>> THEN Likely(data, expected)
    ELSE AllInRange(data, expected)

\* difference <= tolerance_amount, with tolerance_amount = expected * 5 / 100
WithinTolerance(expected, total) ==
    100 * Abs(expected - total) <= DEFAULT_BUDGET_TOLERANCE * expected

\* a variant: an empty extraction is reported like an empty filter
NoCurrencyWarning(expected) ==
    ValidationResult("budget_check", "warning", "no_currency", expected, 0)
\* lines 87-94: the result when the extractor found nothing
NoCurrencyResult(expected) ==
    ValidationResult("budget_check", "fail", "no_currency", expected, 0)

\* the result of the check once the currency data is extracted
BudgetResult(expected, data) ==
    IF data = <<>>
    THEN NoCurrencyResult(expected)
    ELSE IF LikelyBudgets(data, expected) = <<>>
    THEN ValidationResult("budget_check", "warning", "none_likely",
                          expected, [all_currency_data |-> data])
    ELSE LET likely == LikelyBudgets(data, expected)
             total == SumAmounts(likely)
         IN  ValidationResult("budget_check",
                 IF WithinTolerance(expected, total) THEN "pass" ELSE "fail",
                 IF WithinTolerance(expected, total)
                 THEN "within_tolerance" ELSE "exceeds_tolerance",
                 expected,
                 [total |-> total, budget_amounts |-> likely,
                  all_currency_data |-> data])


----------------------------------------------------------------------------
(* JSON values of the brief                                                *)

Absent == [type |-> "absent", val |-> 0, text |-> ""]
Null == [type |-> "null", val |-> 0, text |-> ""]
Num(n) == [type |-> "number", val |-> n, text |-> ""]
\* a JSON string; val is the number Python reads from it, when it reads one
Str(s) == [type |-> "string", val |-> IF s = "1000" THEN 1000 ELSE 0,
           text |-> s]

\* whether float(v) / int(v) returns (it raises on null and on "n/a")
Parsable(v) ==
    \/ v.type \in {"number", "absent"}
    \/ (v.type = "string" /\ v.text \in {"1000"})

\* json_brief.get(field, 0) read as a number
NumberOf(v) == IF v.type = "absent" THEN 0 ELSE v.val

\* brief['creative_assets']: absent, null, or an object with has_assets and
\* a description that is absent, null or a string
AssetsAbsent ==
    [type |-> "absent", has_assets |-> FALSE, description |-> Absent]
AssetsNull == [type |-> "null", has_assets |-> FALSE, description |-> Absent]
Assets(has, desc) ==
    [type |-> "object", has_assets |-> has, description |-> desc]

\* a JSON object (its members are not modelled)
Obj == [type |-> "object", val |-> 0, text |-> ""]

DefaultBrief ==
    [budget |-> Num(1000), campaign_duration_days |-> Num(30),
     creative_assets |-> AssetsAbsent, business |-> Obj]

----------------------------------------------------------------------------
(* The budget run: validate_budget_from_text(json_brief, doc)              *)

BudgetParas ==
    {"2. Strategy Explainer", "Creative Checklist",
     "Objective: Sales - Budget: $1,050",
     "Impression share: $1,000 on Facebook", "Fee: $50", "Setup: $100"}

PlanTable ==
    << <<"Platform", "Budget">>, <<" Facebook ", "$500">>, <<"", "   ">> >>

BudgetValues == {Absent, Num(500), Num(1000), Str("n/a")}

\* The variables the budget run leaves alone
OtherFacts ==
    <<start_date, end_date, media_plan_data, creative_checklist,
      overall_status, run_vars>>

InitBudget ==
    /\ NoRun
    /\ pc = "budget_call"
    /\ brief \in {[DefaultBrief EXCEPT !.budget = b] : b \in BudgetValues}
    /\ paragraphs \in SeqsUpTo(BudgetParas, MaxParas)
    /\ tables \in {<<>>, <<PlanTable>>}
    /\ all_text_elements = <<>>
    /\ i = 0
    /\ strategy_explainer_index = None
    /\ creative_checklist_index = None
    /\ currency_data = <<>>
    /\ start_date = "None"
    /\ end_date = "None"
    /\ media_plan_data = <<>>
    /\ creative_checklist = <<>>
    /\ checks = <<>>
    /\ overall_status = "None"

\* line 82: expected_budget = float(json_brief.get('budget', 0)); a value
\* float() rejects raises, and the handler of line 146 reports fail
BudgetCall ==
    /\ pc = "budget_call"
    /\ IF Parsable(brief.budget)
       THEN /\ pc' = "linearize"
            /\ checks' = checks
       ELSE /\ pc' = "done"
            /\ checks' = Append(checks,
                   ValidationResult("budget_check", "fail", "error", 0, 0))
    /\ UNCHANGED <<brief, paragraphs, tables, all_text_elements, i,
                   strategy_explainer_index, creative_checklist_index,
                   currency_data, OtherFacts>>

\* a variant: the list of mentions is kept from one call to the next
LinearizeElementsKeepsList ==
    /\ pc = "linearize"
    /\ all_text_elements' = Linearize(paragraphs, tables)
    /\ strategy_explainer_index' = None
    /\ creative_checklist_index' = None
    /\ i' = 1
    /\ pc' = "first_pass"
    /\ UNCHANGED <<brief, paragraphs, tables, currency_data, checks,
                   OtherFacts>>

\* lines 159-182: the linearized element list and the two empty boundaries
LinearizeElements ==
    /\ pc = "linearize"
    /\ all_text_elements' = Linearize(paragraphs, tables)
    /\ strategy_explainer_index' = None
    /\ creative_checklist_index' = None
    /\ currency_data' = <<>>
    /\ i' = 1
    /\ pc' = "first_pass"
    /\ UNCHANGED <<brief, paragraphs, tables, checks, OtherFacts>>

\* lines 185-197: one iteration of the boundary scan
FirstPassStep ==
    /\ pc = "first_pass"
    /\ i <= Len(all_text_elements)
    /\ strategy_explainer_index' =
           IF IsStrategyHeading(all_text_elements[i]) THEN i
           ELSE strategy_explainer_index
    /\ IF IsChecklistHeading(all_text_elements[i])
       THEN /\ creative_checklist_index' = i
            /\ pc' = "second_pass"
            /\ i' = 1
       ELSE /\ creative_checklist_index' = creative_checklist_index
            /\ pc' = pc
            /\ i' = i + 1
    /\ UNCHANGED <<brief, paragraphs, tables, all_text_elements,
                   currency_data, checks, OtherFacts>>

\* line 185: the scan ran off the end of the list
FirstPassEnd ==
    /\ pc = "first_pass"
    /\ i > Len(all_text_elements)
    /\ pc' = "second_pass"
    /\ i' = 1
    /\ UNCHANGED <<brief, paragraphs, tables, all_text_elements,
                   strategy_explainer_index, creative_checklist_index,
                   currency_data, checks, OtherFacts>>

\* lines 200-263: one iteration of the extraction pass
SecondPassStep ==
    /\ pc = "second_pass"
    /\ i <= Len(all_text_elements)
    /\ currency_data' =
           IF ShouldProcess(i, strategy_explainer_index,
                            creative_checklist_index)
           THEN currency_data \o MentionsOf(all_text_elements, i)
           ELSE currency_data
    /\ i' = i + 1
    /\ UNCHANGED <<pc, brief, paragraphs, tables, all_text_elements,
                   strategy_explainer_index, creative_checklist_index,
                   checks, OtherFacts>>

\* line 265: return currency_data
SecondPassEnd ==
    /\ pc = "second_pass"
    /\ i > Len(all_text_elements)
    /\ pc' = "budget_result"
    /\ UNCHANGED <<brief, paragraphs, tables, all_text_elements, i,
                   strategy_explainer_index, creative_checklist_index,
                   currency_data, checks, OtherFacts>>

\* lines 87-144: the result from the extracted currency data
BudgetCheck ==
    /\ pc = "budget_result"
    /\ checks' = Append(checks,
                     BudgetResult(NumberOf(brief.budget), currency_data))
    /\ pc' = "done"
    /\ UNCHANGED <<brief, paragraphs, tables, all_text_elements, i,
                   strategy_explainer_index, creative_checklist_index,
                   currency_data, OtherFacts>>

NextBudget ==
    \/ BudgetCall
    \/ LinearizeElements
    \/ FirstPassStep
    \/ FirstPassEnd
    \/ SecondPassStep
    \/ SecondPassEnd
    \/ BudgetCheck

SpecBudget == InitBudget /\ [][NextBudget]_vars


----------------------------------------------------------------------------
(* Claims about the budget run                                             *)

\* the first position holding a strategy-explainer heading, or None
FirstStrategyHeading(elems) ==
    IF \E k \in DOMAIN elems : IsStrategyHeading(elems[k])
    THEN CHOOSE k \in DOMAIN elems :
             /\ IsStrategyHeading(elems[k])
             /\ \A m \in 1..(k - 1) : ~IsStrategyHeading(elems[m])
    ELSE None

\* the first position after s holding a creative-checklist heading, or None
FirstChecklistHeadingAfter(elems, s) ==
    IF \E k \in DOMAIN elems : k > s /\ IsChecklistHeading(elems[k])
    THEN CHOOSE k \in DOMAIN elems :
             /\ k > s /\ IsChecklistHeading(elems[k])
             /\ \A m \in (s + 1)..(k - 1) : ~IsChecklistHeading(elems[m])
    ELSE None

\* position k lies strictly between the first strategy heading and the
\* first checklist heading after it
InNarrative(elems, k) ==
    LET s == FirstStrategyHeading(elems)
        c == FirstChecklistHeadingAfter(elems, s)
    IN  s # None /\ c # None /\ s < k /\ k < c

\* C1: in a document with a strategy-explainer heading and a later
\* creative-checklist heading, the extraction pass adds no CurrencyMention
\* while it visits an element strictly between the first strategy heading
\* and the first checklist heading after it.
C1_NarrativeYieldsNoMention ==
    [][(pc = "second_pass" /\ i <= Len(all_text_elements)
        /\ InNarrative(all_text_elements, i))
       => currency_data' = currency_data]_vars

\* the budget check returned a result computed from a readable budget
BudgetDone == pc = "done" /\ Parsable(brief.budget) /\ Len(checks) = 1

\* the positions of currency_data whose amount is in [100, 2*expected]
C2_InRangeSet ==
    {n \in DOMAIN currency_data :
        /\ 100 <= currency_data[n].amount
        /\ currency_data[n].amount <= 2 * NumberOf(brief.budget)}

\* those of them that are near an objective or near impressions
C2_NearSet ==
    {n \in C2_InRangeSet :
        currency_data[n].near_objective \/ currency_data[n].near_impressions}

\* the mentions the claim sums: the near ones, or all in range if none is
C2_Summed == IF C2_NearSet # {} THEN C2_NearSet ELSE C2_InRangeSet

RECURSIVE C2_Sum(_)
C2_Sum(S) ==
    IF S = {} THEN 0
    ELSE LET n == CHOOSE n \in S : TRUE
         IN  currency_data[n].amount + C2_Sum(S \ {n})

----------------------------------------------------------------------------
(* The aggregation of validate_media_plan: lines 421-428                   *)

Statuses == {"pass", "fail", "warning", "skip"}

CheckNames ==
    <<"budget_check", "duration_check", "channel_consistency_check",
      "creative_check", "strategy_ai_check">>

\* statuses = [check.status for check in checks]
StatusesOf(cs) == {cs[n].status : n \in DOMAIN cs}

\* a variant: the two tests in the other order
OverallStatusWarningFirst(cs) ==
    IF "warning" \in StatusesOf(cs) THEN "warning"
    ELSE IF "fail" \in StatusesOf(cs) THEN "fail"
    ELSE "pass"
\* lines 423-428
OverallStatus(cs) ==
    IF "fail" \in StatusesOf(cs) THEN "fail"
    ELSE IF "warning" \in StatusesOf(cs) THEN "warning"
    ELSE "pass"

\* a list of results with the given statuses; the aggregation reads the
\* statuses only, so a list may be longer than the five checks of a run
ResultsWith(sts) ==
    [n \in DOMAIN sts |->
        ValidationResult(IF n \in DOMAIN CheckNames
                         THEN CheckNames[n] ELSE "check",
                         sts[n], "", 0, 0)]

InitAggregate ==
    /\ NoRun
    /\ pc = "aggregate"
    /\ checks \in {ResultsWith(sts) : sts \in SeqsUpTo(Statuses, MaxChecks)}
    /\ brief = DefaultBrief
    /\ paragraphs = <<>>
    /\ tables = <<>>
    /\ all_text_elements = <<>>
    /\ i = 0
    /\ strategy_explainer_index = None
    /\ creative_checklist_index = None
    /\ currency_data = <<>>
    /\ start_date = "None"
    /\ end_date = "None"
    /\ media_plan_data = <<>>
    /\ creative_checklist = <<>>
    /\ overall_status = "None"

\* lines 421-428: determine the overall status
DetermineOverallStatus ==
    /\ pc = "aggregate"
    /\ overall_status' = OverallStatus(checks)
    /\ pc' = "done"
    /\ UNCHANGED run_vars
    /\ UNCHANGED <<brief, paragraphs, tables, all_text_elements, i,
                   strategy_explainer_index, creative_checklist_index,
                   currency_data, start_date, end_date, media_plan_data,
                   creative_checklist, checks>>

NextAggregate == DetermineOverallStatus

SpecAggregate == InitAggregate /\ [][NextAggregate]_vars

\* C4: the overall status is fail if some check failed, otherwise warning
\* if some check warned, otherwise pass; a list whose checks are all pass
\* or skip is pass.
C4_OverallStatus ==
    pc = "done" =>
        /\ (\E n \in DOMAIN checks : checks[n].status = "fail")
               => overall_status = "fail"
        /\ ((\A n \in DOMAIN checks : checks[n].status # "fail")
            /\ (\E n \in DOMAIN checks : checks[n].status = "warning"))
               => overall_status = "warning"
        /\ (\A n \in DOMAIN checks : checks[n].status \in {"pass", "skip"})
               => overall_status = "pass"

\* a fail next to a warning and a skip: the report fails
C4_Witness ==
    /\ pc = "done"
    /\ \E n \in DOMAIN checks : checks[n].status = "fail"
    /\ \E n \in DOMAIN checks : checks[n].status = "warning"
    /\ \E n \in DOMAIN checks : checks[n].status = "skip"
    /\ overall_status = "fail"


----------------------------------------------------------------------------
(* DocumentSectionDetector.extract_media_plan_table                        *)

\* a cell value of a row: the stripped text, or the float of a cost column
StrVal(t) == [isnum |-> FALSE, str |-> t, num |-> 0]
NumVal(n) == [isnum |-> TRUE, str |-> "", num |-> n]

\* Python's truth value of a cell value
Truthy(v) == IF v.isnum THEN v.num # 0 ELSE v.str # ""

\* headers = [cell.text.strip().lower() for cell in table.rows[0].cells]
Headers(table) == [k \in DOMAIN table[1] |-> Lower(table[1][k])]

\* len(table.rows) >= 2 and a media-plan keyword in ' '.join(headers)
LooksLikePlanTable(table) ==
    /\ Len(table) >= 2
    /\ \E k \in DOMAIN Headers(table) :
           \E kw \in {"platform", "channel", "cost", "budget", "objective"} :
               Contains(Headers(table)[k], kw)

\* lines 66-80: the value stored for a cell under a header
CellValue(header, t) ==
    IF (Contains(header, "cost") \/ Contains(header, "budget")
        \/ Contains(header, "spend"))
       /\ Lex(t).number # <<>>
    THEN NumVal(Lex(t).number[1])
    ELSE StrVal(Strip(t))

\* lines 62-80: row_data, the last cell under a repeated header winning
RowData(headers, cells) ==
    LET used == {k \in DOMAIN cells : k <= Len(headers)}
        last(h) == CHOOSE k \in used :
                       /\ headers[k] = h
                       /\ \A m \in used : headers[m] = h => m <= k
    IN  [h \in {headers[k] : k \in used} |-> CellValue(h, cells[last(h)])]

\* line 82: row_data and any(row_data.values())
KeepRow(row_data) ==
    \E h \in DOMAIN row_data : Truthy(row_data[h])

\* the rows one table contributes
TableRows(table) ==
    IF LooksLikePlanTable(table)
    THEN SelectSeq([k \in 1..(Len(table) - 1) |->
                       RowData(Headers(table), table[k + 1])],
                   KeepRow)
    ELSE <<>>

\* lines 48-85
ExtractMediaPlanTable(tabs) ==
    Flatten([k \in DOMAIN tabs |-> TableRows(tabs[k])])

----------------------------------------------------------------------------
(* Channel lists and normalize_channel_name                                *)

RECURSIVE AppendNew(_, _)
\* append the non-empty names of a list that are not yet in acc
AppendNew(acc, names) ==
    IF names = <<>> THEN acc
    ELSE IF Head(names) # "" /\ \A k \in DOMAIN acc : acc[k] # Head(names)
         THEN AppendNew(Append(acc, Head(names)), Tail(names))
         ELSE AppendNew(acc, Tail(names))

\* lines 268-273 of the validator: the name a row contributes, if any
RowChannel(row) ==
    LET present == {k \in DOMAIN PLATFORM_FIELDS :
                       /\ PLATFORM_FIELDS[k] \in DOMAIN row
                       /\ Truthy(row[PLATFORM_FIELDS[k]])}
        first == CHOOSE k \in present : \A m \in present : k <= m
    IN  IF present = {} THEN <<>>
        ELSE <<Lower(row[PLATFORM_FIELDS[first]].str)>>

\* MediaPlanValidator._extract_plan_channels
ExtractPlanChannels(rows) ==
    AppendNew(<<>>, Flatten([k \in DOMAIN rows |-> RowChannel(rows[k])]))

\* DocumentSectionDetector.extract_strategy_channels
ExtractStrategyChannels(paras, tabs) ==
    LET elems == Linearize(paras, tabs)
    IN  AppendNew(<<>>, Flatten([k \in DOMAIN elems |-> Lex(elems[k]).labels]))

\* a variant: the table lookup is forgotten
NormalizeWithoutTable(channel) == Lower(channel)
\* normalize_channel_name
NormalizeChannelName(channel) ==
    LET c == Lower(channel)
    IN  IF c \in DOMAIN CHANNEL_NORMALIZATIONS
        THEN CHANNEL_NORMALIZATIONS[c] ELSE c

----------------------------------------------------------------------------
(* MediaPlanValidator.validate_channel_consistency                         *)

\* a variant: an empty strategy list falls through to the comparison
EmptyListResultPlanOnly(plan_channels, strategy_channels) ==
    IF plan_channels = <<>>
    THEN <<ValidationResult("channel_consistency_check", "warning",
                            "no_plan_channels", 0, 0)>>
    ELSE <<>>
\* lines 188-200: the early returns
EmptyListResult(plan_channels, strategy_channels) ==
    IF plan_channels = <<>>
    THEN <<ValidationResult("channel_consistency_check", "warning",
                            "no_plan_channels", 0, 0)>>
    ELSE IF strategy_channels = <<>>
    THEN <<ValidationResult("channel_consistency_check", "warning",
                            "no_strategy_channels", 0, 0)>>
    ELSE <<>>

\* a variant: the two differences are swapped
MissingSwapped(plan_set, strategy_set) ==
    [matching |-> plan_set \cap strategy_set,
     missing_in_strategy |-> strategy_set \ plan_set,
     missing_in_plan |-> plan_set \ strategy_set]
\* lines 210-212
Missing(plan_set, strategy_set) ==
    [matching |-> plan_set \cap strategy_set,
     missing_in_strategy |-> plan_set \ strategy_set,
     missing_in_plan |-> strategy_set \ plan_set]

\* lines 202-257: the comparison of two non-empty lists
CompareChannels(plan_channels, strategy_channels) ==
    LET normalized_plan ==
            [k \in DOMAIN plan_channels |->
                NormalizeChannelName(plan_channels[k])]
        normalized_strategy ==
            [k \in DOMAIN strategy_channels |->
                NormalizeChannelName(strategy_channels[k])]
        plan_set == {normalized_plan[k] : k \in DOMAIN normalized_plan}
        strategy_set ==
            {normalized_strategy[k] : k \in DOMAIN normalized_strategy}
        actual == Missing(plan_set, strategy_set)
        count_match == Len(plan_channels) = Len(strategy_channels)
        all_match ==
            /\ Cardinality(actual.matching) = Cardinality(plan_set)
            /\ Cardinality(plan_set) = Cardinality(strategy_set)
    IN  ValidationResult("channel_consistency_check",
            IF all_match THEN "pass" ELSE "fail",
            [count_mismatch |-> ~count_match,
             summary |-> IF all_match THEN "all_match"
                         ELSE IF actual.matching # {} THEN "inconsistencies"
                         ELSE "no_matching"],
            [plan_channels |-> plan_channels,
             strategy_channels |-> strategy_channels,
             normalized_plan |-> normalized_plan,
             normalized_strategy |-> normalized_strategy],
            actual)

\* lines 183-257
ChannelResult(rows, paras, tabs) ==
    LET plan_channels == ExtractPlanChannels(rows)
        strategy_channels == ExtractStrategyChannels(paras, tabs)
        early == EmptyListResult(plan_channels, strategy_channels)
    IN  IF early # <<>> THEN early[1]
        ELSE CompareChannels(plan_channels, strategy_channels)


----------------------------------------------------------------------------
(* The channel run: extract_media_plan_table(doc), then                    *)
(* validate_channel_consistency(media_plan_data, doc)                      *)

PlanHeader == <<"Platform", "Budget">>

\* data rows of a plan table: a channel with its budget, or an empty row
PlanRows ==
    {<<n, "$500">> :
        n \in {"Meta (Facebook)", "Google Search", "facebook", "meta (fb)"}}
    \cup {<<"", "">>}

\* a table whose header names no plan column
OtherTable == << <<"Name", "Notes">>, <<"Facebook", "facebook">> >>

\* paragraphs of a strategy narrative
LabelParas ==
    {"Channel: Facebook", "channel: facebook.", "Channel: Google Ads",
     "- Channel: meta (fb);", "Channel: -"}

\* documents with up to MaxRows plan rows and MaxLabels narrative paragraphs
ChannelDocs ==
    {[tables |-> t, paragraphs |-> p] :
        t \in {<<>>, <<OtherTable>>}
              \cup {<< <<PlanHeader>> \o rows >> :
                       rows \in SeqsUpTo(PlanRows, MaxRows)},
        p \in SeqsUpTo(LabelParas, MaxLabels)}

\* documents naming one key of the normalization table on each side
KeyDocs ==
    {[tables |-> << <<PlanHeader, <<a, "$500">> >> >>,
      paragraphs |-> <<LabelText(b)>>] :
        a \in ChannelKeys, b \in ChannelKeys}

InitChannel ==
    /\ NoRun
    /\ pc = "channel_table"
    /\ \E d \in ChannelDocs \cup KeyDocs :
           /\ tables = d.tables
           /\ paragraphs = d.paragraphs
    /\ brief = DefaultBrief
    /\ all_text_elements = <<>>
    /\ i = 0
    /\ strategy_explainer_index = None
    /\ creative_checklist_index = None
    /\ currency_data = <<>>
    /\ start_date = "None"
    /\ end_date = "None"
    /\ media_plan_data = <<>>
    /\ creative_checklist = <<>>
    /\ checks = <<>>
    /\ overall_status = "None"

\* validate_media_plan line 408
ExtractTable ==
    /\ pc = "channel_table"
    /\ media_plan_data' = ExtractMediaPlanTable(tables)
    /\ pc' = "channel_check"
    /\ UNCHANGED run_vars
    /\ UNCHANGED <<brief, paragraphs, tables, all_text_elements, i,
                   strategy_explainer_index, creative_checklist_index,
                   currency_data, start_date, end_date, creative_checklist,
                   checks, overall_status>>

\* validate_media_plan line 415
ChannelCheck ==
    /\ pc = "channel_check"
    /\ checks' = Append(checks,
                     ChannelResult(media_plan_data, paragraphs, tables))
    /\ pc' = "done"
    /\ UNCHANGED run_vars
    /\ UNCHANGED <<brief, paragraphs, tables, all_text_elements, i,
                   strategy_explainer_index, creative_checklist_index,
                   currency_data, start_date, end_date, media_plan_data,
                   creative_checklist, overall_status>>

NextChannel == ExtractTable \/ ChannelCheck

SpecChannel == InitChannel /\ [][NextChannel]_vars


----------------------------------------------------------------------------
(* Claims about the channel run                                            *)

ChannelDone == pc = "done" /\ Len(checks) = 1

\* the check compared two non-empty lists (no early return)
ChannelCompared == ChannelDone /\ checks[1].status # "warning"

\* the set of the entries of a list
Range(seq) == {seq[k] : k \in DOMAIN seq}

\* C5: the check passes only if the normalized sets are equal and the two
\* lists have the same length before normalization.
C5_PassNeedsEqualCounts ==
    (ChannelDone /\ checks[1].status = "pass") =>
        LET e == checks[1].expected
        IN  /\ Range(e.normalized_plan) = Range(e.normalized_strategy)
            /\ Len(e.plan_channels) = Len(e.strategy_channels)

\* two names are keys of the normalization table with one canonical form
SameCanonical(a, b) ==
    /\ a \in ChannelKeys
    /\ b \in ChannelKeys
    /\ CHANNEL_NORMALIZATIONS[a] = CHANNEL_NORMALIZATIONS[b]

\* C6: names the table maps to one canonical form normalize to the same
\* name, and a plan listing only the one against a strategy naming only the
\* other passes the channel consistency check.
C6_SameCanonicalMatches ==
    ChannelDone =>
        /\ \A a, b \in ChannelKeys :
               SameCanonical(a, b) =>
                   NormalizeChannelName(a) = NormalizeChannelName(b)
        /\ \A a, b \in ChannelKeys :
               (/\ SameCanonical(a, b)
                /\ tables = << <<PlanHeader, <<a, "$500">> >> >>
                /\ paragraphs = <<LabelText(b)>>)
                   => checks[1].status = "pass"
        /\ (/\ ChannelCompared
            /\ Len(checks[1].expected.plan_channels) = 1
            /\ Len(checks[1].expected.strategy_channels) = 1
            /\ SameCanonical(Lower(checks[1].expected.plan_channels[1]),
                             Lower(checks[1].expected.strategy_channels[1])))
               => checks[1].status = "pass"

\* "facebook" in the plan against "Channel: meta (fb)" in the strategy
C6_Witness ==
    /\ ChannelDone
    /\ tables = << <<PlanHeader, <<"facebook", "$500">> >> >>
    /\ paragraphs = <<LabelText("meta (fb)")>>
    /\ checks[1].status = "pass"

\* C7: two non-empty lists whose normalized sets differ fail the check,
\* which fails the report whatever the other checks say, and the result
\* names the normalized strategy channels absent from the plan as missing
\* in the plan and the normalized plan channels absent from the strategy
\* as missing in the strategy.
C7_MismatchFails ==
    ChannelCompared =>
        LET plan_set == Range(checks[1].expected.normalized_plan)
            strategy_set == Range(checks[1].expected.normalized_strategy)
        IN  /\ checks[1].actual.missing_in_plan = strategy_set \ plan_set
            /\ checks[1].actual.missing_in_strategy = plan_set \ strategy_set
            /\ plan_set # strategy_set =>
                   /\ checks[1].status = "fail"
                   /\ \A sts \in [1..3 -> Statuses] :
                          OverallStatus(ResultsWith(sts) \o checks) = "fail"

\* Scenario C
C7_Witness ==
    /\ ChannelDone
    /\ tables = << <<PlanHeader, <<"Meta (Facebook)", "$500">>,
                     <<"Google Search", "$500">> >> >>
    /\ paragraphs = <<"Channel: Facebook", "Channel: Google Ads">>
    /\ checks[1].status = "fail"
    /\ checks[1].actual.missing_in_plan = {"google ads"}
    /\ checks[1].actual.missing_in_strategy = {"google search"}

\* C8: a document without tables yields no media-plan row, and an empty
\* plan-channel list or strategy-channel list yields warning.
C8_EmptySideWarns ==
    /\ (tables = <<>> /\ pc # "channel_table") => media_plan_data = <<>>
    /\ (/\ ChannelDone
        /\ \/ ExtractPlanChannels(media_plan_data) = <<>>
           \/ ExtractStrategyChannels(paragraphs, tables) = <<>>)
           => checks[1].status = "warning"

\* no table at all, and a strategy that names channels
C8_Witness ==
    /\ ChannelDone
    /\ tables = <<>>
    /\ media_plan_data = <<>>
    /\ ExtractStrategyChannels(paragraphs, tables) # <<>>
    /\ checks[1].status = "warning"

\* a plan with channels against a narrative that names none
C8_WitnessNoStrategy ==
    /\ ChannelDone
    /\ ExtractPlanChannels(media_plan_data) # <<>>
    /\ ExtractStrategyChannels(paragraphs, tables) = <<>>
    /\ checks[1].status = "warning"

----------------------------------------------------------------------------
(* The duration run: validate_duration(json_brief, start_date, end_date)   *)

\* datetime.strptime(s, '%Y-%m-%d') reads three numbers out of the text
DateFields(s) ==
    CASE s = "2023-12-31" -> [year |-> 2023, month |-> 12, day |-> 31]
      [] s = "2024-01-01" -> [year |-> 2024, month |-> 1, day |-> 1]
      [] s = "2024-01-29" -> [year |-> 2024, month |-> 1, day |-> 29]
      [] s = "2024-01-30" -> [year |-> 2024, month |-> 1, day |-> 30]
      [] s = "2024-01-31" -> [year |-> 2024, month |-> 1, day |-> 31]
      [] s = "2024-02-29" -> [year |-> 2024, month |-> 2, day |-> 29]
      [] s = "2024-03-01" -> [year |-> 2024, month |-> 3, day |-> 1]
      [] s = "2023-02-29" -> [year |-> 2023, month |-> 2, day |-> 29]
      [] s = "2024-13-01" -> [year |-> 2024, month |-> 13, day |-> 1]
      [] s = "0000-01-01" -> [year |-> 0, month |-> 1, day |-> 1]

IsLeap(y) == y % 4 = 0 /\ (y % 100 # 0 \/ y % 400 = 0)

DaysInMonth(y, mo) ==
    IF mo = 2 THEN (IF IsLeap(y) THEN 29 ELSE 28)
    ELSE IF mo \in {4, 6, 9, 11} THEN 30 ELSE 31

\* whether strptime returns a date (it raises ValueError otherwise)
ValidDate(s) ==
    LET f == DateFields(s)
    IN  /\ f.year >= 1
        /\ f.month \in 1..12
        /\ f.day \in 1..DaysInMonth(f.year, f.month)

\* days before January 1st of year y, counted from 0001-01-01
DaysBeforeYear(y) ==
    (y - 1) * 365 + ((y - 1) \div 4) - ((y - 1) \div 100) + ((y - 1) \div 400)

RECURSIVE DaysBeforeMonth(_, _)
DaysBeforeMonth(y, mo) ==
    IF mo = 1 THEN 0
    ELSE DaysBeforeMonth(y, mo - 1) + DaysInMonth(y, mo - 1)

\* the day number of a date, as the subtraction of two datetimes uses it
Ordinal(s) ==
    LET f == DateFields(s)
    IN  DaysBeforeYear(f.year) + DaysBeforeMonth(f.year, f.month) + f.day

\* a duration that drops the end day
ActualDurationExclusive(start, end) == Ordinal(end) - Ordinal(start)

\* (end_dt - start_dt).days + 1
ActualDuration(start, end) == Ordinal(end) - Ordinal(start) + 1

DurationResult(json_brief, start, end) ==
    IF start = "None" \/ end = "None"
    THEN ValidationResult("duration_check", "warning", "no_dates", 0, 0)
    ELSE IF \/ ~ValidDate(start)
            \/ ~ValidDate(end)
            \/ ~Parsable(json_brief.campaign_duration_days)
    THEN ValidationResult("duration_check", "fail", "error", 0, 0)
    ELSE LET actual_duration == ActualDuration(start, end)
             expected_duration == NumberOf(json_brief.campaign_duration_days)
         IN  IF actual_duration = expected_duration
             THEN ValidationResult("duration_check", "pass", "exact",
                                   expected_duration, actual_duration)
             ELSE IF Abs(actual_duration - expected_duration)
                         <= DEFAULT_DURATION_TOLERANCE_DAYS
             THEN ValidationResult("duration_check", "pass",
                      "within_tolerance", expected_duration, actual_duration)
             ELSE ValidationResult("duration_check", "fail", "mismatch",
                                   expected_duration, actual_duration)

\* the dates extract_campaign_dates can hand over: None, or ten characters
\* of the shape dddd-dd-dd (which need not name a day of the calendar)
DateTexts ==
    {"None", "2023-12-31", "2024-01-01", "2024-01-29", "2024-01-30",
     "2024-01-31", "2024-02-29", "2024-03-01", "2023-02-29", "2024-13-01",
     "0000-01-01"}

DurationValues ==
    {Absent, Num(1), Num(29), Num(30), Num(31), Num(60), Str("n/a"), Null}

InitDuration ==
    /\ NoRun
    /\ pc = "duration_call"
    /\ brief \in {[DefaultBrief EXCEPT !.campaign_duration_days = d] :
                     d \in DurationValues}
    /\ start_date \in DateTexts
    /\ end_date \in DateTexts
    /\ paragraphs = <<>>
    /\ tables = <<>>
    /\ all_text_elements = <<>>
    /\ i = 0
    /\ strategy_explainer_index = None
    /\ creative_checklist_index = None
    /\ currency_data = <<>>
    /\ media_plan_data = <<>>
    /\ creative_checklist = <<>>
    /\ checks = <<>>
    /\ overall_status = "None"

\* a variant: the handler of lines 178-179 is missing, and a date or a
\* duration that cannot be read ends the run
DurationCheckUncaught ==
    /\ pc = "duration_call"
    /\ IF /\ start_date # "None" /\ end_date # "None"
          /\ \/ ~ValidDate(start_date)
             \/ ~ValidDate(end_date)
             \/ ~Parsable(brief.campaign_duration_days)
       THEN /\ raised' = "ValueError"
            /\ run_pc' = "raised"
            /\ pc' = "idle"
            /\ checks' = checks
       ELSE /\ checks' = Append(checks,
                             DurationResult(brief, start_date, end_date))
            /\ pc' = "done"
            /\ UNCHANGED <<raised, run_pc>>
    /\ UNCHANGED <<brief, paragraphs, tables, all_text_elements, i,
                   strategy_explainer_index, creative_checklist_index,
                   currency_data, start_date, end_date, media_plan_data,
                   creative_checklist, overall_status, json_file,
                   docx_file, client_arg, openai_client,
                   include_ai_validation, model_reply, model_calls, report,
                   runs>>

DurationCheck ==
    /\ pc = "duration_call"
    /\ checks' = Append(checks, DurationResult(brief, start_date, end_date))
    /\ pc' = "done"
    /\ UNCHANGED run_vars
    /\ UNCHANGED <<brief, paragraphs, tables, all_text_elements, i,
                   strategy_explainer_index, creative_checklist_index,
                   currency_data, start_date, end_date, media_plan_data,
                   creative_checklist, overall_status>>

NextDuration == DurationCheck

SpecDuration == InitDuration /\ [][NextDuration]_vars

DurationDone == pc = "done" /\ Len(checks) = 1

\* the day after a calendar date <<y, m, d>>
C9_NextDay(d) ==
    IF d[3] < DaysInMonth(d[1], d[2]) THEN <<d[1], d[2], d[3] + 1>>
    ELSE IF d[2] < 12 THEN <<d[1], d[2] + 1, 1>>
    ELSE <<d[1] + 1, 1, 1>>

C9_Before(a, b) ==
    \/ a[1] < b[1]
    \/ (a[1] = b[1] /\ a[2] < b[2])
    \/ (a[1] = b[1] /\ a[2] = b[2] /\ a[3] < b[3])

\* the number of calendar days from a to b, both counted, for a not after b
RECURSIVE C9_DaysCounted(_, _)
C9_DaysCounted(a, b) ==
    IF a = b THEN 1 ELSE 1 + C9_DaysCounted(C9_NextDay(a), b)

C9_Triple(s) ==
    <<DateFields(s).year, DateFields(s).month, DateFields(s).day>>

\* an end before the start counts backwards: one day back is 0, two are -1
C9_InclusiveDays(start, end) ==
    IF C9_Before(C9_Triple(end), C9_Triple(start))
    THEN 2 - C9_DaysCounted(C9_Triple(end), C9_Triple(start))
    ELSE C9_DaysCounted(C9_Triple(start), C9_Triple(end))

C9_Readable ==
    /\ start_date # "None" /\ end_date # "None"
    /\ ValidDate(start_date) /\ ValidDate(end_date)
    /\ Parsable(brief.campaign_duration_days)

\* C9: the duration check returns warning when a date is missing; otherwise
\* the actual duration is the inclusive day count from start to end
\* (2024-01-01 to 2024-01-29 is 29 days), the status is pass when it equals
\* campaign_duration_days or differs from it by at most one day, and fail
\* otherwise (a date or a duration that cannot be read is a fail as well).
C9_DurationStatus ==
    DurationDone =>
      LET r == checks[1]
          expected == NumberOf(brief.campaign_duration_days)
      IN  /\ (start_date = "None" \/ end_date = "None")
                 => r.status = "warning"
          /\ (start_date # "None" /\ end_date # "None")
                 => r.status \in {"pass", "fail"}
          /\ C9_Readable =>
               /\ r.actual = C9_InclusiveDays(start_date, end_date)
               /\ r.status = "pass"
                     <=> Abs(r.actual - expected) <= 1
          /\ (start_date = "2024-01-01" /\ end_date = "2024-01-29"
                 /\ C9_Readable) => r.actual = 29

\* Scenario B: 30 days expected, 2024-01-01 to 2024-01-29 in the document
C9_Witness ==
    /\ DurationDone
    /\ brief.campaign_duration_days = Num(30)
    /\ start_date = "2024-01-01"
    /\ end_date = "2024-01-29"
    /\ checks[1].status = "pass"
    /\ checks[1].details = "within_tolerance"
    /\ checks[1].actual = 29

----------------------------------------------------------------------------
(* The creative run: validate_creative_assets(json_brief, checklist)       *)

\* the asset types the check looks for, in the order it looks for them
ASSET_TYPES == <<"image", "video", "banner", "carousel">>

\* whether creative_assets.get(...) and .lower() return (None has neither)
AssetsReadable(creative_assets) ==
    /\ creative_assets.type # "null"
    /\ creative_assets.description.type # "null"

\* creative_assets.get('description', '').lower()
Description(creative_assets) ==
    IF creative_assets.description.type = "string"
    THEN Lower(creative_assets.description.text)
    ELSE ""

\* the asset types named in the description
AssetTypes(description) ==
    SelectSeq(ASSET_TYPES, LAMBDA ty : Contains(description, ty))

\* the keywords that occur in ' '.join(creative_checklist).lower(): a word
\* without a blank occurs in the joined text exactly when it occurs in an item
ChecklistWords(checklist) ==
    UNION {Lex(checklist[k]).words : k \in 1..Len(checklist)}

\* a search that looks at the first item of the checklist only
MissingTypesFirstItemOnly(asset_types, checklist) ==
    SelectSeq(asset_types, LAMBDA ty : ty \notin Lex(checklist[1]).words)

MissingTypes(asset_types, checklist) ==
    SelectSeq(asset_types, LAMBDA ty : ty \notin ChecklistWords(checklist))

CreativeResult(json_brief, checklist) ==
    LET creative_assets == json_brief.creative_assets
    IN  IF ~AssetsReadable(creative_assets)
        THEN ValidationResult("creative_check", "fail", "error", <<>>, <<>>)
        ELSE IF ~creative_assets.has_assets
        THEN IF checklist # <<>>
             THEN ValidationResult("creative_check", "warning",
                                   "checklist_without_assets", <<>>, <<>>)
             ELSE ValidationResult("creative_check", "pass",
                                   "no_assets", <<>>, <<>>)
        ELSE IF checklist = <<>>
        THEN ValidationResult("creative_check", "warning",
                              "assets_without_checklist", <<>>, <<>>)
        ELSE LET asset_types == AssetTypes(Description(creative_assets))
                 missing_types == MissingTypes(asset_types, checklist)
             IN  ValidationResult("creative_check",
                     IF missing_types = <<>> THEN "pass" ELSE "warning",
                     IF missing_types = <<>>
                     THEN "all_found" ELSE "missing_types",
                     asset_types, checklist)

DescriptionValues ==
    {Absent, Null, Str(""), Str("Product images and a short video"),
     Str("Banner ads"), Str("Carousel cards for the feed")}

AssetsValues ==
    {AssetsAbsent, AssetsNull}
        \cup {Assets(h, d) : h \in BOOLEAN, d \in DescriptionValues}

\* items as extract_creative_checklist returns them
ChecklistItems == {"Product IMAGES 1080x1080", "15s video", "Logo files"}

InitCreative ==
    /\ NoRun
    /\ pc = "creative_call"
    /\ brief \in {[DefaultBrief EXCEPT !.creative_assets = a] :
                     a \in AssetsValues}
    /\ creative_checklist \in SeqsUpTo(ChecklistItems, MaxItems)
    /\ paragraphs = <<>>
    /\ tables = <<>>
    /\ all_text_elements = <<>>
    /\ i = 0
    /\ strategy_explainer_index = None
    /\ creative_checklist_index = None
    /\ currency_data = <<>>
    /\ start_date = "None"
    /\ end_date = "None"
    /\ media_plan_data = <<>>
    /\ checks = <<>>
    /\ overall_status = "None"

CreativeCheck ==
    /\ pc = "creative_call"
    /\ checks' = Append(checks, CreativeResult(brief, creative_checklist))
    /\ pc' = "done"
    /\ UNCHANGED run_vars
    /\ UNCHANGED <<brief, paragraphs, tables, all_text_elements, i,
                   strategy_explainer_index, creative_checklist_index,
                   currency_data, start_date, end_date, media_plan_data,
                   creative_checklist, overall_status>>

NextCreative == CreativeCheck

SpecCreative == InitCreative /\ [][NextCreative]_vars

CreativeDone == pc = "done" /\ Len(checks) = 1

\* the brief declares assets (absent creative_assets declares none)
C10_Declared == brief.creative_assets.has_assets

\* the asset types that occur in the brief's description
C10_Named ==
    IF brief.creative_assets.description.type = "string"
    THEN {ty \in {"image", "video", "banner", "carousel"} :
             ty \in Lex(Lower(brief.creative_assets.description.text)).words}
    ELSE {}

\* every named type occurs in some item of the checklist
C10_Covered ==
    \A ty \in C10_Named :
        \E k \in 1..Len(creative_checklist) :
            ty \in Lex(creative_checklist[k]).words

C10_PassCase ==
    \/ (~C10_Declared /\ creative_checklist = <<>>)
    \/ (C10_Declared /\ creative_checklist # <<>> /\ C10_Covered)

\* creative_assets is null, or its description is null
C10_Malformed ==
    \/ brief.creative_assets.type = "null"
    \/ brief.creative_assets.description.type = "null"

----------------------------------------------------------------------------
(* The remaining extractors and the AI-strategy check                      *)

\* what a match of the k-th date pattern assigns: 'start' in pattern,
\* 'end' in pattern, or a pattern with two groups
DatePatternKind == <<"start", "start", "end", "end", "both", "both">>

\* a variant: a date that is already set is kept
RECURSIVE ApplyDatePatternsKeepFirst(_, _, _)
ApplyDatePatternsKeepFirst(text, k, found) ==
    IF k > Len(DatePatternKind) THEN found
    ELSE LET groups == Lex(text).dates[k]
             first == IF DatePatternKind[k] = "start" THEN groups[1]
                      ELSE IF DatePatternKind[k] = "both" THEN groups[1]
                      ELSE found[1]
             second == IF DatePatternKind[k] = "end" THEN groups[1]
                       ELSE IF DatePatternKind[k] = "both" THEN groups[2]
                       ELSE found[2]
             next == IF groups = <<>> THEN found
                     ELSE <<IF found[1] = "None" THEN first ELSE found[1],
                            IF found[2] = "None" THEN second ELSE found[2]>>
         IN  ApplyDatePatternsKeepFirst(text, k + 1, next)

\* lines 35-43: the patterns applied to one paragraph, from pattern k on
RECURSIVE ApplyDatePatterns(_, _, _)
ApplyDatePatterns(text, k, found) ==
    IF k > Len(DatePatternKind) THEN found
    ELSE LET groups == Lex(text).dates[k]
             next == IF groups = <<>> THEN found
                     ELSE IF DatePatternKind[k] = "start"
                     THEN <<groups[1], found[2]>>
                     ELSE IF DatePatternKind[k] = "end"
                     THEN <<found[1], groups[1]>>
                     ELSE <<groups[1], groups[2]>>
         IN  ApplyDatePatterns(text, k + 1, next)

\* lines 33-45: the paragraphs from position k on
RECURSIVE ScanDates(_, _, _)
ScanDates(paras, k, found) ==
    IF k > Len(paras) THEN found
    ELSE ScanDates(paras, k + 1, ApplyDatePatterns(paras[k], 1, found))

\* <<start_date, end_date>>
ExtractCampaignDates(paras) == ScanDates(paras, 1, <<"None", "None">>)

\* lines 93-111: the paragraphs from position k on
RECURSIVE ScanChecklist(_, _, _, _)
ScanChecklist(paras, k, in_checklist, checklist_items) ==
    IF k > Len(paras) THEN checklist_items
    ELSE IF IsChecklistHeading(paras[k])
    THEN ScanChecklist(paras, k + 1, TRUE, checklist_items)
    ELSE IF in_checklist /\ Lex(paras[k]).stop
    THEN checklist_items
    ELSE IF in_checklist /\ Lex(paras[k]).item # <<>>
    THEN ScanChecklist(paras, k + 1, in_checklist,
                       checklist_items \o Lex(paras[k]).item)
    ELSE ScanChecklist(paras, k + 1, in_checklist, checklist_items)

ExtractCreativeChecklist(paras) == ScanChecklist(paras, 1, FALSE, <<>>)

\* what the language model does when asked: it answers a text, answers
\* without content, or the request fails
ReplyText(t) == [kind |-> "text", text |-> t]
ReplyNull == [kind |-> "null", text |-> ""]
ReplyError == [kind |-> "raise", text |-> ""]

\* lines 352-356: strategy_text is not empty
HasStrategyText(paras) == \E k \in DOMAIN paras : Lex(paras[k]).long

\* line 59: openai_client or OpenAI(); built is what OpenAI() returns
DefaultClient(arg, built) == IF arg # "None" THEN arg ELSE built

\* lines 366-374: the prompt is built; .get raises on a business entry
\* that is no object
PromptBuilds(json_brief) == json_brief.business.type \in {"absent", "object"}

\* whether line 376 is reached
AsksModel(json_brief, client, paras) ==
    client # "None" /\ HasStrategyText(paras) /\ PromptBuilds(json_brief)

\* a mapping that tests the two prefixes in one branch
ReplyStatusMerged(reply) ==
    IF Lex(reply.text).consistent \/ Lex(reply.text).partially
    THEN "pass" ELSE "fail"

\* lines 386-393 (and 397-398 when the request or .strip() raises)
ReplyStatus(reply) ==
    IF reply.kind # "text" THEN "fail"
    ELSE IF Lex(reply.text).consistent THEN "pass"
    ELSE IF Lex(reply.text).partially THEN "warning"
    ELSE "fail"

AIResult(json_brief, client, paras, reply) ==
    IF client = "None"
    THEN ValidationResult("strategy_ai_check", "skip", "no_client", 0, 0)
    ELSE IF ~HasStrategyText(paras)
    THEN ValidationResult("strategy_ai_check", "warning", "no_text", 0, 0)
    ELSE IF ~PromptBuilds(json_brief)
    THEN ValidationResult("strategy_ai_check", "fail", "error", 0, 0)
    ELSE ValidationResult("strategy_ai_check", ReplyStatus(reply),
                          IF reply.kind = "text"
                          THEN Strip(reply.text) ELSE "error", 0, 0)

----------------------------------------------------------------------------
(* The whole run: MediaPlanValidator(...) and validate_media_plan(...)     *)

RunBriefs ==
    {[budget |-> b, campaign_duration_days |-> d, creative_assets |-> a,
      business |-> bs] :
        b \in {Num(1000), Str("n/a"), Absent},
        d \in {Num(30), Str("n/a"), Absent},
        a \in {Assets(TRUE, Str("Banner ads")), AssetsNull},
        bs \in {Obj, Str("n/a")}}

\* the file behind json_path: absent, not JSON, unreadable, or a brief
JsonFiles ==
    {[state |-> st, content |-> DefaultBrief] :
        st \in {"missing", "malformed", "unreadable"}}
        \cup {[state |-> "ok", content |-> b] : b \in RunBriefs}

FullDoc ==
    [paragraphs |->
        <<"Campaign start: 2024-01-01", "Campaign end: 2024-01-30",
          "Objective: Sales - Budget: $1,050", "2. Strategy Explainer",
          "Channel: Facebook",
          "Our strategy concentrates the spend on Facebook to reach local buyers.",
          "Creative Checklist", "- Banner ads">>,
     tables |-> <<PlanTable>>]

\* the same plan with a start date that is no day of the calendar
BadDateDoc ==
    [FullDoc EXCEPT !.paragraphs[1] = "Campaign start: 2024-13-01"]

\* a plan without a paragraph of more than 50 characters
ShortDoc ==
    [paragraphs |->
        <<"Campaign start: 2024-01-01", "Campaign end: 2024-01-30",
          "Objective: Sales - Budget: $1,050", "Channel: Facebook",
          "Creative Checklist", "- Banner ads">>,
     tables |-> <<PlanTable>>]

EmptyDoc == [paragraphs |-> <<>>, tables |-> <<>>]

\* the file behind docx_path: one python-docx cannot open, or a document
DocxFiles ==
    {[state |-> "unreadable", content |-> EmptyDoc]}
        \cup {[state |-> "ok", content |-> d] :
                 d \in {FullDoc, BadDateDoc, ShortDoc, EmptyDoc}}

ModelReplies ==
    {ReplyText(t) : t \in {"CONSISTENT: the strategy fits the brief",
                           "PARTIALLY_CONSISTENT: the budget is not mentioned",
                           "INCONSISTENT: the strategy targets another market",
                           "  CONSISTENT  ", "consistent with the brief"}}
        \cup {ReplyNull, ReplyError}

InitRun ==
    /\ run_pc = "construct"
    /\ pc = "idle"
    /\ json_file \in JsonFiles
    /\ docx_file \in DocxFiles
    /\ client_arg \in {"None", "client"}
    /\ include_ai_validation \in BOOLEAN
    /\ model_reply \in ModelReplies
    /\ openai_client = "None"
    /\ model_calls = 0
    /\ raised = "None"
    /\ report = <<>>
    /\ runs = <<>>
    /\ brief = "None"
    /\ paragraphs = <<>>
    /\ tables = <<>>
    /\ all_text_elements = <<>>
    /\ i = 0
    /\ strategy_explainer_index = None
    /\ creative_checklist_index = None
    /\ currency_data = <<>>
    /\ start_date = "None"
    /\ end_date = "None"
    /\ media_plan_data = <<>>
    /\ creative_checklist = <<>>
    /\ checks = <<>>
    /\ overall_status = "None"

\* the variables of the checks and extractors
CheckFacts ==
    <<brief, paragraphs, tables, all_text_elements, i,
      strategy_explainer_index, creative_checklist_index, currency_data,
      start_date, end_date, media_plan_data, creative_checklist, checks,
      overall_status>>

\* lines 57-62 (called at line 461): OpenAI() is built when no client is
\* given; it returns a client, or raises when it finds no API key
Construct ==
    /\ run_pc = "construct"
    /\ \E built \in {"default_client", "raise"} :
          IF DefaultClient(client_arg, built) = "raise"
          THEN /\ raised' = "OpenAIError"
               /\ run_pc' = "raised"
               /\ openai_client' = openai_client
          ELSE /\ openai_client' = DefaultClient(client_arg, built)
               /\ run_pc' = "load_brief"
               /\ raised' = raised
    /\ UNCHANGED <<pc, CheckFacts, json_file, docx_file, client_arg,
                   include_ai_validation, model_reply, model_calls, report,
                   runs>>

\* a variant: a loader that rejects a brief without budget or
\* campaign_duration_days
LoadJsonBriefRequiresFields ==
    /\ run_pc = "load_brief"
    /\ IF /\ json_file.state = "ok"
          /\ json_file.content.budget.type # "absent"
          /\ json_file.content.campaign_duration_days.type # "absent"
       THEN /\ brief' = json_file.content
            /\ run_pc' = "load_doc"
            /\ raised' = raised
       ELSE /\ raised' = IF json_file.state = "unreadable"
                         THEN "OSError" ELSE "ValueError"
            /\ run_pc' = "raised"
            /\ brief' = brief
    /\ UNCHANGED <<pc, paragraphs, tables, all_text_elements, i,
                   strategy_explainer_index, creative_checklist_index,
                   currency_data, start_date, end_date, media_plan_data,
                   creative_checklist, checks, overall_status, json_file,
                   docx_file, client_arg, openai_client,
                   include_ai_validation, model_reply, model_calls, report,
                   runs>>

\* lines 64-70 (called at line 403)
LoadJsonBrief ==
    /\ run_pc = "load_brief"
    /\ IF json_file.state = "ok"
       THEN /\ brief' = json_file.content
            /\ run_pc' = "load_doc"
            /\ raised' = raised
       ELSE /\ raised' = IF json_file.state = "unreadable"
                         THEN "OSError" ELSE "ValueError"
            /\ run_pc' = "raised"
            /\ brief' = brief
    /\ UNCHANGED <<pc, paragraphs, tables, all_text_elements, i,
                   strategy_explainer_index, creative_checklist_index,
                   currency_data, start_date, end_date, media_plan_data,
                   creative_checklist, checks, overall_status, json_file,
                   docx_file, client_arg, openai_client,
                   include_ai_validation, model_reply, model_calls, report,
                   runs>>

\* a variant: a loader that answers a document it cannot open with an
\* empty document
LoadWordDocumentLenient ==
    /\ run_pc = "load_doc"
    /\ paragraphs' = docx_file.content.paragraphs
    /\ tables' = docx_file.content.tables
    /\ run_pc' = "extract"
    /\ raised' = raised
    /\ UNCHANGED <<pc, brief, all_text_elements, i,
                   strategy_explainer_index, creative_checklist_index,
                   currency_data, start_date, end_date, media_plan_data,
                   creative_checklist, checks, overall_status, json_file,
                   docx_file, client_arg, openai_client,
                   include_ai_validation, model_reply, model_calls, report,
                   runs>>

\* lines 72-77 (called at line 404)
LoadWordDocument ==
    /\ run_pc = "load_doc"
    /\ IF docx_file.state = "ok"
       THEN /\ paragraphs' = docx_file.content.paragraphs
            /\ tables' = docx_file.content.tables
            /\ run_pc' = "extract"
            /\ raised' = raised
       ELSE /\ raised' = "ValueError"
            /\ run_pc' = "raised"
            /\ UNCHANGED <<paragraphs, tables>>
    /\ UNCHANGED <<pc, brief, all_text_elements, i,
                   strategy_explainer_index, creative_checklist_index,
                   currency_data, start_date, end_date, media_plan_data,
                   creative_checklist, checks, overall_status, json_file,
                   docx_file, client_arg, openai_client,
                   include_ai_validation, model_reply, model_calls, report,
                   runs>>

\* the variables of the run that only Construct, the loaders, the AI check
\* and the report change
RunFacts ==
    <<json_file, docx_file, client_arg, openai_client,
      include_ai_validation, model_reply, model_calls, raised, report,
      runs>>

\* lines 407-413: the three extractions, the empty list of checks and the
\* call of the budget check
ExtractDocumentData ==
    /\ run_pc = "extract"
    /\ start_date' = ExtractCampaignDates(paragraphs)[1]
    /\ end_date' = ExtractCampaignDates(paragraphs)[2]
    /\ media_plan_data' = ExtractMediaPlanTable(tables)
    /\ creative_checklist' = ExtractCreativeChecklist(paragraphs)
    /\ checks' = <<>>
    /\ run_pc' = "budget"
    /\ pc' = "budget_call"
    /\ UNCHANGED <<brief, paragraphs, tables, all_text_elements, i,
                   strategy_explainer_index, creative_checklist_index,
                   currency_data, overall_status, RunFacts>>

\* line 414: the budget check returned, the duration check is called
CallDuration ==
    /\ run_pc = "budget" /\ pc = "done"
    /\ run_pc' = "duration"
    /\ pc' = "duration_call"
    /\ UNCHANGED <<CheckFacts, RunFacts>>

\* line 415
CallChannel ==
    /\ run_pc = "duration" /\ pc = "done"
    /\ run_pc' = "channel"
    /\ pc' = "channel_check"
    /\ UNCHANGED <<CheckFacts, RunFacts>>

\* line 416
CallCreative ==
    /\ run_pc = "channel" /\ pc = "done"
    /\ run_pc' = "creative"
    /\ pc' = "creative_call"
    /\ UNCHANGED <<CheckFacts, RunFacts>>

\* a variant: the AI-strategy check called whatever the flag says
CallAIAlways ==
    /\ run_pc = "creative" /\ pc = "done"
    /\ run_pc' = "ai"
    /\ pc' = "ai_call"
    /\ UNCHANGED <<CheckFacts, RunFacts>>

\* lines 418-419
CallAI ==
    /\ run_pc = "creative" /\ pc = "done"
    /\ include_ai_validation
    /\ run_pc' = "ai"
    /\ pc' = "ai_call"
    /\ UNCHANGED <<CheckFacts, RunFacts>>

\* lines 341-398
StrategyAICheck ==
    /\ pc = "ai_call"
    /\ checks' = Append(checks,
                    AIResult(brief, openai_client, paragraphs, model_reply))
    /\ model_calls' = IF AsksModel(brief, openai_client, paragraphs)
                      THEN model_calls + 1 ELSE model_calls
    /\ pc' = "done"
    /\ UNCHANGED <<brief, paragraphs, tables, all_text_elements, i,
                   strategy_explainer_index, creative_checklist_index,
                   currency_data, start_date, end_date, media_plan_data,
                   creative_checklist, overall_status, run_pc, json_file,
                   docx_file, client_arg, openai_client,
                   include_ai_validation, model_reply, raised, report, runs>>

\* line 421: the last check returned
CallAggregate ==
    /\ pc = "done"
    /\ \/ run_pc = "ai"
       \/ (run_pc = "creative" /\ ~include_ai_validation)
    /\ run_pc' = "aggregate"
    /\ pc' = "aggregate"
    /\ UNCHANGED <<CheckFacts, RunFacts>>

\* lines 430-441
AssembleReport ==
    /\ run_pc = "aggregate" /\ pc = "done"
    /\ report' = <<[overall_status |-> overall_status, checks |-> checks]>>
    /\ run_pc' = "returned"
    /\ UNCHANGED <<pc, CheckFacts, json_file, docx_file, client_arg,
                   openai_client, include_ai_validation, model_reply,
                   model_calls, raised, runs>>

NextRun ==
    \/ Construct
    \/ LoadJsonBrief
    \/ LoadWordDocument
    \/ ExtractDocumentData
    \/ BudgetCall
    \/ LinearizeElements
    \/ FirstPassStep
    \/ FirstPassEnd
    \/ SecondPassStep
    \/ SecondPassEnd
    \/ BudgetCheck
    \/ CallDuration
    \/ DurationCheck
    \/ CallChannel
    \/ ChannelCheck
    \/ CallCreative
    \/ CreativeCheck
    \/ CallAI
    \/ StrategyAICheck
    \/ CallAggregate
    \/ DetermineOverallStatus
    \/ AssembleReport

SpecRun == InitRun /\ [][NextRun]_vars

----------------------------------------------------------------------------
(* The checks of a run as functions of its inputs                          *)

\* lines 185-197 from position k on: <<strategy index, checklist index>>
RECURSIVE ScanBoundaries(_, _, _)
ScanBoundaries(elems, k, sidx) ==
    IF k > Len(elems) THEN <<sidx, None>>
    ELSE LET s == IF IsStrategyHeading(elems[k]) THEN k ELSE sidx
         IN  IF IsChecklistHeading(elems[k]) THEN <<s, k>>
             ELSE ScanBoundaries(elems, k + 1, s)

\* lines 200-263 from position k on
RECURSIVE ScanCurrency(_, _, _, _)
ScanCurrency(elems, k, sidx, cidx) ==
    IF k > Len(elems) THEN <<>>
    ELSE (IF ShouldProcess(k, sidx, cidx)
          THEN MentionsOf(elems, k) ELSE <<>>)
         \o ScanCurrency(elems, k + 1, sidx, cidx)

\* extract_currency_amounts_from_text(doc)
ExtractCurrencyAmounts(paras, tabs) ==
    LET elems == Linearize(paras, tabs)
        b == ScanBoundaries(elems, 1, None)
    IN  ScanCurrency(elems, 1, b[1], b[2])

\* validate_budget_from_text(json_brief, doc)
BudgetCheckResult(json_brief, doc) ==
    IF ~Parsable(json_brief.budget)
    THEN ValidationResult("budget_check", "fail", "error", 0, 0)
    ELSE BudgetResult(NumberOf(json_brief.budget),
                      ExtractCurrencyAmounts(doc.paragraphs, doc.tables))

\* lines 407-419: the checks of validate_media_plan for a brief, a
\* document, a client, a model and the flag
RunChecks(json_brief, doc, client, reply, include_ai) ==
    LET dates == ExtractCampaignDates(doc.paragraphs)
    IN  << BudgetCheckResult(json_brief, doc),
           DurationResult(json_brief, dates[1], dates[2]),
           ChannelResult(ExtractMediaPlanTable(doc.tables),
                         doc.paragraphs, doc.tables),
           CreativeResult(json_brief,
                          ExtractCreativeChecklist(doc.paragraphs)) >>
        \o (IF include_ai
            THEN <<AIResult(json_brief, client, doc.paragraphs, reply)>>
            ELSE <<>>)

\* the stepwise run and the functions agree
RunMatchesFunctions ==
    /\ (pc = "budget_result" /\ run_pc = "budget")
          => currency_data = ExtractCurrencyAmounts(paragraphs, tables)
    /\ run_pc = "returned"
          => checks = RunChecks(brief, docx_file.content, openai_client,
                                model_reply, include_ai_validation)

----------------------------------------------------------------------------
(* The extractors called again on the same document                       *)

ExtractParas ==
    {"2. Strategy Explainer", "Creative Checklist",
     "Objective: Sales - Budget: $1,050", "Channel: Facebook"}

InitExtract ==
    /\ NoRun
    /\ pc = "extract_call"
    /\ brief = DefaultBrief
    /\ paragraphs \in SeqsUpTo(ExtractParas, MaxParas)
    /\ tables \in {<<>>, <<PlanTable>>}
    /\ all_text_elements = <<>>
    /\ i = 0
    /\ strategy_explainer_index = None
    /\ creative_checklist_index = None
    /\ currency_data = <<>>
    /\ start_date = "None"
    /\ end_date = "None"
    /\ media_plan_data = <<>>
    /\ creative_checklist = <<>>
    /\ checks = <<>>
    /\ overall_status = "None"

\* document_parser.py line 157: extract_currency_amounts_from_text(doc) is
\* entered
CallExtractors ==
    /\ pc = "extract_call"
    /\ Len(runs) < MaxRuns
    /\ pc' = "linearize"
    /\ UNCHANGED <<brief, paragraphs, tables, all_text_elements, i,
                   strategy_explainer_index, creative_checklist_index,
                   currency_data, checks, OtherFacts>>

\* the list returned at line 265, with the lists extract_media_plan_table
\* (line 85) and extract_strategy_channels (line 150) return for the same
\* document, kept for the comparison
RecordExtraction ==
    /\ pc = "budget_result"
    /\ run_pc = "none"
    /\ runs' = Append(runs,
                  [currency_data |-> currency_data,
                   media_plan_data |-> ExtractMediaPlanTable(tables),
                   strategy_channels |->
                       ExtractStrategyChannels(paragraphs, tables)])
    /\ pc' = "extract_call"
    /\ UNCHANGED <<brief, paragraphs, tables, all_text_elements, i,
                   strategy_explainer_index, creative_checklist_index,
                   currency_data, checks, start_date, end_date,
                   media_plan_data, creative_checklist, overall_status,
                   run_pc, json_file, docx_file, client_arg, openai_client,
                   include_ai_validation, model_reply, model_calls, raised,
                   report>>

NextExtract ==
    \/ CallExtractors
    \/ LinearizeElements
    \/ FirstPassStep
    \/ FirstPassEnd
    \/ SecondPassStep
    \/ SecondPassEnd
    \/ RecordExtraction

SpecExtract == InitExtract /\ [][NextExtract]_vars

----------------------------------------------------------------------------
(* The budget check on documents that differ in the strategy narrative    *)

NarrativeParas ==
    {"Production fee: $500", "2. Strategy Explainer",
     "We target sales on Facebook", "We keep it simple",
     "Creative Checklist: $1,000 production"}

InitNarrative ==
    /\ NoRun
    /\ pc = "extract_call"
    /\ brief = DefaultBrief
    /\ paragraphs \in SeqsUpTo(NarrativeParas, MaxParas)
    /\ tables = <<>>
    /\ all_text_elements = <<>>
    /\ i = 0
    /\ strategy_explainer_index = None
    /\ creative_checklist_index = None
    /\ currency_data = <<>>
    /\ start_date = "None"
    /\ end_date = "None"
    /\ media_plan_data = <<>>
    /\ creative_checklist = <<>>
    /\ checks = <<>>
    /\ overall_status = "None"

\* media_plan_validator.py lines 85-144: the extractor returned, the result
\* of the budget check for this document is kept with the element list and
\* the boundaries it was made from
RecordBudgetRun ==
    /\ pc = "budget_result"
    /\ run_pc = "none"
    /\ runs' = Append(runs,
                  [all_text_elements |-> all_text_elements,
                   strategy_explainer_index |-> strategy_explainer_index,
                   creative_checklist_index |-> creative_checklist_index,
                   currency_data |-> currency_data,
                   result |-> BudgetResult(NumberOf(brief.budget),
                                           currency_data)])
    /\ pc' = "next_document"
    /\ UNCHANGED <<brief, paragraphs, tables, all_text_elements, i,
                   strategy_explainer_index, creative_checklist_index,
                   currency_data, checks, start_date, end_date,
                   media_plan_data, creative_checklist, overall_status,
                   run_pc, json_file, docx_file, client_arg, openai_client,
                   include_ai_validation, model_reply, model_calls, raised,
                   report>>

\* the next document handed to the check: the same paragraphs with another
\* text at one position strictly between the two boundaries
NarrativeEdited ==
    /\ pc = "next_document"
    /\ strategy_explainer_index # None
    /\ creative_checklist_index # None
    /\ \E k \in DOMAIN paragraphs, t \in NarrativeParas :
          /\ strategy_explainer_index < k
          /\ k < creative_checklist_index
          /\ t # paragraphs[k]
          /\ paragraphs' = [paragraphs EXCEPT ![k] = t]
    /\ pc' = "extract_call"
    /\ UNCHANGED <<brief, tables, all_text_elements, i,
                   strategy_explainer_index, creative_checklist_index,
                   currency_data, checks, OtherFacts>>

\* the next document handed to the check: the same document
\* again
SameDocument ==
    /\ pc = "next_document"
    /\ pc' = "extract_call"
    /\ UNCHANGED <<brief, paragraphs, tables, all_text_elements, i,
                   strategy_explainer_index, creative_checklist_index,
                   currency_data, checks, OtherFacts>>

SpecNarrative ==
    InitNarrative
    /\ [][ \/ CallExtractors
           \/ LinearizeElements
           \/ FirstPassStep
           \/ FirstPassEnd
           \/ SecondPassStep
           \/ SecondPassEnd
           \/ RecordBudgetRun
           \/ NarrativeEdited
           \/ SameDocument ]_vars

----------------------------------------------------------------------------
(* DocumentSectionDetector.extract_creative_checklist, paragraph by        *)
(* paragraph: pc is "checklist_off" while in_checklist is False,           *)
(* "checklist_on" while it is True, "checklist_end" after the loop         *)

ChecklistParas ==
    {"Creative Checklist", "- Banner ads", "Timeline: four weeks",
     "Logo files", "-"}

InitChecklist ==
    /\ NoRun
    /\ pc = "checklist_off"
    /\ i = 1
    /\ brief = DefaultBrief
    /\ paragraphs \in SeqsUpTo(ChecklistParas, MaxParas)
    /\ tables = <<>>
    /\ all_text_elements = <<>>
    /\ strategy_explainer_index = None
    /\ creative_checklist_index = None
    /\ currency_data = <<>>
    /\ start_date = "None"
    /\ end_date = "None"
    /\ media_plan_data = <<>>
    /\ creative_checklist = <<>>
    /\ checks = <<>>
    /\ overall_status = "None"

\* a variant: the section heading only switches the collection off and the
\* scan goes on
ChecklistStepResumes ==
    /\ pc \in {"checklist_off", "checklist_on"}
    /\ i <= Len(paragraphs)
    /\ i' = i + 1
    /\ IF IsChecklistHeading(paragraphs[i])
       THEN pc' = "checklist_on" /\ creative_checklist' = creative_checklist
       ELSE IF pc = "checklist_on" /\ Lex(paragraphs[i]).stop
       THEN pc' = "checklist_off" /\ creative_checklist' = creative_checklist
       ELSE /\ pc' = pc
            /\ creative_checklist' =
                   IF pc = "checklist_on"
                   THEN creative_checklist \o Lex(paragraphs[i]).item
                   ELSE creative_checklist
    /\ UNCHANGED <<brief, paragraphs, tables, all_text_elements,
                   strategy_explainer_index, creative_checklist_index,
                   currency_data, checks, start_date, end_date,
                   media_plan_data, overall_status, run_vars>>

\* lines 93-109: one iteration of the loop over the paragraphs
ChecklistStep ==
    /\ pc \in {"checklist_off", "checklist_on"}
    /\ i <= Len(paragraphs)
    /\ IF IsChecklistHeading(paragraphs[i])
       THEN /\ pc' = "checklist_on"
            /\ i' = i + 1
            /\ creative_checklist' = creative_checklist
       ELSE IF pc = "checklist_on" /\ Lex(paragraphs[i]).stop
       THEN /\ pc' = "checklist_end"
            /\ i' = i
            /\ creative_checklist' = creative_checklist
       ELSE /\ pc' = pc
            /\ i' = i + 1
            /\ creative_checklist' =
                   IF pc = "checklist_on"
                   THEN creative_checklist \o Lex(paragraphs[i]).item
                   ELSE creative_checklist
    /\ UNCHANGED <<brief, paragraphs, tables, all_text_elements,
                   strategy_explainer_index, creative_checklist_index,
                   currency_data, checks, start_date, end_date,
                   media_plan_data, overall_status, run_vars>>

\* lines 93 and 111: the paragraphs are used up, the list is returned
ChecklistEnd ==
    /\ pc \in {"checklist_off", "checklist_on"}
    /\ i > Len(paragraphs)
    /\ pc' = "checklist_end"
    /\ UNCHANGED <<i, creative_checklist>>
    /\ UNCHANGED <<brief, paragraphs, tables, all_text_elements,
                   strategy_explainer_index, creative_checklist_index,
                   currency_data, checks, start_date, end_date,
                   media_plan_data, overall_status, run_vars>>

SpecChecklist == InitChecklist /\ [][ChecklistStep \/ ChecklistEnd]_vars

----------------------------------------------------------------------------
(* DocumentSectionDetector.extract_campaign_dates, paragraph by paragraph  *)

DateParas ==
    {"Campaign start: 2024-01-01", "Campaign end: 2024-01-30",
     "Start date: 2024-02-01", "End date: 2024-02-28",
     "Duration: 2024-01-01 to 2024-01-29",
     "2024-05-01 then duration: 2024-06-01 to 2024-06-30",
     "Timeline: four weeks"}

InitDates ==
    /\ NoRun
    /\ pc = "dates_scan"
    /\ i = 1
    /\ brief = DefaultBrief
    /\ paragraphs \in SeqsUpTo(DateParas, MaxParas)
    /\ tables = <<>>
    /\ all_text_elements = <<>>
    /\ strategy_explainer_index = None
    /\ creative_checklist_index = None
    /\ currency_data = <<>>
    /\ start_date = "None"
    /\ end_date = "None"
    /\ media_plan_data = <<>>
    /\ creative_checklist = <<>>
    /\ checks = <<>>
    /\ overall_status = "None"

\* lines 33-43: one paragraph, all six patterns
DatesStep ==
    /\ pc = "dates_scan"
    /\ i <= Len(paragraphs)
    /\ start_date' =
           ApplyDatePatterns(paragraphs[i], 1, <<start_date, end_date>>)[1]
    /\ end_date' =
           ApplyDatePatterns(paragraphs[i], 1, <<start_date, end_date>>)[2]
    /\ i' = i + 1
    /\ pc' = pc
    /\ UNCHANGED <<brief, paragraphs, tables, all_text_elements,
                   strategy_explainer_index, creative_checklist_index,
                   currency_data, checks, media_plan_data,
                   creative_checklist, overall_status, run_vars>>

\* line 45: return start_date, end_date
DatesEnd ==
    /\ pc = "dates_scan"
    /\ i > Len(paragraphs)
    /\ pc' = "dates_end"
    /\ UNCHANGED <<i, start_date, end_date>>
    /\ UNCHANGED <<brief, paragraphs, tables, all_text_elements,
                   strategy_explainer_index, creative_checklist_index,
                   currency_data, checks, media_plan_data,
                   creative_checklist, overall_status, run_vars>>

SpecDates == InitDates /\ [][DatesStep \/ DatesEnd]_vars

----------------------------------------------------------------------------
(* DocumentSectionDetector.extract_media_plan_table on tables with empty   *)
(* and zero cells                                                          *)

\* data rows: a channel with a budget, with a budget of zero, without a
\* budget, a budget of zero alone, and rows of empty cells
TableDataRows ==
    {<<"Facebook", "$500">>, <<"Google Search", "$0">>, <<"Facebook", "">>,
     <<"", "$0">>, <<"", "">>, <<"   ", "   ">>}

InitTable ==
    /\ NoRun
    /\ pc = "channel_table"
    /\ \E h \in {PlanHeader, <<"Name", "Notes">>},
          rows \in SeqsUpTo(TableDataRows, MaxRows) :
              tables = << <<h>> \o rows >>
    /\ paragraphs = <<>>
    /\ brief = DefaultBrief
    /\ all_text_elements = <<>>
    /\ i = 0
    /\ strategy_explainer_index = None
    /\ creative_checklist_index = None
    /\ currency_data = <<>>
    /\ start_date = "None"
    /\ end_date = "None"
    /\ media_plan_data = <<>>
    /\ creative_checklist = <<>>
    /\ checks = <<>>
    /\ overall_status = "None"

SpecTable == InitTable /\ [][ExtractTable]_vars

----------------------------------------------------------------------------
(* Claims about the whole run                                              *)

\* the AI-strategy check has returned
AIDone == run_pc = "ai" /\ pc = "done"

\* the result of the AI-strategy check
AICheck == checks[Len(checks)]

\* C11: a validator constructed without an OpenAI client returns skip from
\* the AI-strategy check without calling any model, and the skip leaves the
\* overall status alone: pass if all other checks pass.
C11_NoClientSkips ==
    /\ (client_arg = "None" /\ AIDone)
          => (AICheck.status = "skip" /\ model_calls = 0)
    /\ (client_arg = "None" /\ run_pc = "returned" /\ include_ai_validation
        /\ \A n \in 1..4 : checks[n].status = "pass")
          => overall_status = "pass"

\* the status the claim derives from the model's response (trimmed)
C12_StatusOfReply ==
    IF model_reply.kind = "text" /\ Lex(model_reply.text).consistent
    THEN "pass"
    ELSE IF model_reply.kind = "text" /\ Lex(model_reply.text).partially
    THEN "warning"
    ELSE "fail"

\* C12 as stated: whenever the AI-strategy check runs with a configured
\* client its status is decided by the model's response alone: pass for
\* "CONSISTENT...", warning for "PARTIALLY_CONSISTENT...", fail for any
\* other response; nothing else produces a warning.
C12_StatusFromReplyOnly ==
    (AIDone /\ openai_client # "None") => AICheck.status = C12_StatusOfReply

\* some paragraph of the document has more than 50 characters
C12_Substantial ==
    \E k \in DOMAIN paragraphs : Lex(paragraphs[k]).long

\* the brief's business entry is an object, or absent
C12_PromptFields == brief.business.type \in {"absent", "object"}

\* C12, amended: with a configured client, a document that has a paragraph
\* of more than 50 characters and a brief the prompt can be built from, the
\* model is asked once and the status is decided by its response alone
\* (pass for "CONSISTENT...", warning for "PARTIALLY_CONSISTENT...", fail
\* for any other response, a response without content or a failed
\* request); with no such paragraph the status is warning, whatever the
\* model would answer, and the model is not asked; with such a paragraph
\* and a brief the prompt cannot be built from the status is fail and the
\* model is not asked.
C12_StatusFromReplyOrNoText ==
    (AIDone /\ openai_client # "None") =>
        /\ (C12_Substantial /\ C12_PromptFields) =>
              (AICheck.status = C12_StatusOfReply /\ model_calls = 1)
        /\ ~C12_Substantial =>
              (AICheck.status = "warning" /\ model_calls = 0)
        /\ (C12_Substantial /\ ~C12_PromptFields) =>
              (AICheck.status = "fail" /\ model_calls = 0)

\* the model answers PARTIALLY_CONSISTENT about a plan with a narrative
C12_Witness ==
    /\ AIDone
    /\ openai_client # "None"
    /\ C12_Substantial
    /\ C12_PromptFields
    /\ model_reply
          = ReplyText("PARTIALLY_CONSISTENT: the budget is not mentioned")
    /\ AICheck.status = "warning"
    /\ model_calls = 1

\* the number of checks of the run
RunLength == IF include_ai_validation THEN 5 ELSE 4

\* the results of the run with the brief, document and model given
C13_ChecksWith(json_brief, doc, reply) ==
    RunChecks(json_brief, doc, openai_client, reply, include_ai_validation)

\* the duration check met a date or a duration it cannot read
C13_DurationError ==
    /\ start_date # "None" /\ end_date # "None"
    /\ \/ ~ValidDate(start_date)
       \/ ~ValidDate(end_date)
       \/ ~Parsable(brief.campaign_duration_days)

\* the request to the model was sent and failed
C13_ModelError ==
    /\ include_ai_validation
    /\ AsksModel(brief, openai_client, paragraphs)
    /\ model_reply.kind = "raise"

\* C13: an internal error of one check (an unparsable budget, a malformed
\* date, a failing model call) becomes status fail of that check only: no
\* exception reaches the caller once the checks have started, every
\* remaining check runs and the run returns its report, and the results of
\* the other checks equal those of the run without the error.
C13_ErrorsStayInside ==
    /\ raised # "None" => (checks = <<>> /\ pc = "idle")
    /\ run_pc = "returned" =>
         /\ Len(checks) = RunLength
         /\ report = <<[overall_status |-> overall_status,
                        checks |-> checks]>>
         /\ ~Parsable(brief.budget) =>
               /\ checks[1].status = "fail"
               /\ \A n \in 2..RunLength :
                     checks[n] = C13_ChecksWith(
                                     [brief EXCEPT !.budget = Num(1000)],
                                     docx_file.content, model_reply)[n]
         /\ C13_DurationError => checks[2].status = "fail"
         /\ ~Parsable(brief.campaign_duration_days) =>
               \A n \in (1..RunLength) \ {2} :
                   checks[n] = C13_ChecksWith(
                       [brief EXCEPT !.campaign_duration_days = Num(30)],
                       docx_file.content, model_reply)[n]
         /\ docx_file.content = BadDateDoc =>
               \A n \in (1..RunLength) \ {2} :
                   checks[n] = C13_ChecksWith(brief, FullDoc, model_reply)[n]
         /\ C13_ModelError =>
               /\ checks[5].status = "fail"
               /\ \A n \in 1..4 :
                     checks[n] = C13_ChecksWith(brief, docx_file.content,
                         ReplyText("CONSISTENT: the strategy fits the brief")
                         )[n]

\* an unparsable budget, a malformed start date and a failing model call in
\* one run: three checks fail, the channel and creative checks pass
C13_Witness ==
    /\ run_pc = "returned"
    /\ brief.budget = Str("n/a")
    /\ start_date = "2024-13-01"
    /\ C13_ModelError
    /\ [n \in 1..5 |-> checks[n].status]
          = <<"fail", "fail", "pass", "pass", "fail">>
    /\ raised = "None"

\* the brief file is a JSON object without budget or campaign_duration_days
C14_LacksField ==
    /\ json_file.state = "ok"
    /\ \/ json_file.content.budget.type = "absent"
       \/ json_file.content.campaign_duration_days.type = "absent"

\* the brief with 0 written where budget or campaign_duration_days is absent
C14_WithDefaults(json_brief) ==
    [json_brief EXCEPT
        !.budget = IF @.type = "absent" THEN Num(0) ELSE @,
        !.campaign_duration_days = IF @.type = "absent" THEN Num(0) ELSE @]

\* C14 as stated: a brief that lacks budget or campaign_duration_days is
\* rejected at load time; once load_json_brief has run on it the run has
\* been aborted with an error and no check has produced a result.
C14_MissingFieldRejected ==
    (C14_LacksField /\ run_pc \notin {"construct", "load_brief"})
        => (run_pc = "raised" /\ raised # "None" /\ checks = <<>>)

\* C14 amended: load_json_brief hands over any JSON object as it is and
\* raises only for a file that is missing, unreadable or not JSON; a brief
\* without budget or campaign_duration_days runs through every check, and
\* the budget and duration checks give the results of the same brief with
\* 0 for the missing field.
C14_MissingFieldIsDefault ==
    /\ (raised # "None") <=> (run_pc = "raised")
    /\ raised \in {"ValueError", "OSError"}
          => (json_file.state # "ok" \/ docx_file.state # "ok")
    /\ (json_file.state = "ok"
            /\ run_pc \notin {"construct", "load_brief", "raised"})
          => brief = json_file.content
    /\ (C14_LacksField /\ docx_file.state = "ok" /\ raised = "None")
          => run_pc # "raised"
    /\ (C14_LacksField /\ run_pc = "returned")
          => /\ Len(checks) = RunLength
             /\ \A n \in 1..2 :
                   checks[n] = RunChecks(C14_WithDefaults(brief),
                                         docx_file.content, openai_client,
                                         model_reply,
                                         include_ai_validation)[n]

\* a returned run of a brief without budget and without duration: the
\* budget check warns and the duration check fails on the day count
C14_Witness ==
    /\ run_pc = "returned"
    /\ brief.budget.type = "absent"
    /\ brief.campaign_duration_days.type = "absent"
    /\ docx_file.content = FullDoc
    /\ checks[1].status = "warning"
    /\ checks[2].status = "fail"
    /\ checks[2].details # "error"

\* one of the two files cannot be loaded
C15_LoadFails == json_file.state # "ok" \/ docx_file.state # "ok"

\* nothing has been extracted, checked, asked or reported
C15_NothingDone ==
    /\ pc = "idle"
    /\ start_date = "None" /\ end_date = "None"
    /\ media_plan_data = <<>>
    /\ creative_checklist = <<>>
    /\ all_text_elements = <<>>
    /\ currency_data = <<>>
    /\ checks = <<>>
    /\ overall_status = "None"
    /\ model_calls = 0
    /\ report = <<>>

\* C15: when load_json_brief or load_word_document fails the run never
\* gets past the loads: the load that fails raises to the caller at once,
\* and nothing is extracted, no check result is produced and no report is
\* assembled.
C15_LoadFailureAborts ==
    /\ [](C15_LoadFails =>
             /\ run_pc \in {"construct", "load_brief", "load_doc", "raised"}
             /\ C15_NothingDone)
    /\ [][ /\ (run_pc = "load_brief" /\ json_file.state # "ok")
               => (run_pc' = "raised" /\ raised' # "None")
           /\ (run_pc = "load_doc" /\ docx_file.state # "ok")
               => (run_pc' = "raised" /\ raised' # "None")
           /\ (run_pc = "raised") => (run_pc' = "raised") ]_vars

\* the brief loaded, the document did not, and the run ended in the error
C15_Witness ==
    /\ run_pc = "raised"
    /\ raised = "ValueError"
    /\ json_file.state = "ok"
    /\ brief = json_file.content
    /\ docx_file.state = "unreadable"
    /\ C15_NothingDone

\* the order of the checks the claim names
C16_Order ==
    <<"budget_check", "duration_check", "channel_consistency_check",
      "creative_check", "strategy_ai_check">>

\* what the n-th check returns, from the brief, the document, the client and
\* the model alone
C16_ResultOf(n) ==
    RunChecks(brief, docx_file.content, openai_client, model_reply,
              include_ai_validation)[n]

\* C16: the checks are appended one at a time in the order budget,
\* duration, channel consistency, creative, AI-strategy; the AI-strategy
\* check is there exactly when AI validation was requested; the report
\* holds the list in that order; and every result is what its check gives
\* for the brief and the document, whatever the results before it.
C16_FixedOrder ==
    /\ [](/\ Len(checks) <= RunLength
          /\ \A n \in 1..Len(checks) :
                /\ checks[n].check_name = C16_Order[n]
                /\ checks[n] = C16_ResultOf(n)
          /\ run_pc = "returned" =>
                /\ Len(checks) = RunLength
                /\ report[1].checks = checks)
    /\ [][ checks' # checks =>
             /\ Len(checks') = Len(checks) + 1
             /\ SubSeq(checks', 1, Len(checks)) = checks
             /\ run_pc = <<"budget", "duration", "channel", "creative",
                           "ai">>[Len(checks')] ]_vars

\* a returned run with AI validation: five checks of three statuses
C16_Witness ==
    /\ run_pc = "returned"
    /\ include_ai_validation
    /\ Len(report[1].checks) = 5
    /\ report[1].checks[1].status = "fail"
    /\ report[1].checks[2].status = "pass"
    /\ report[1].checks[4].status = "fail"
    /\ report[1].checks[5].status = "warning"

\* a returned run without AI validation: four checks
C16_WitnessWithoutAI ==
    /\ run_pc = "returned"
    /\ ~include_ai_validation
    /\ Len(report[1].checks) = 4

----------------------------------------------------------------------------
(* Claims about the extractors                                             *)

C18_Eligible(k) ==
    \/ strategy_explainer_index = None
    \/ k < strategy_explainer_index
    \/ (creative_checklist_index # None /\ k >= creative_checklist_index)

\* the mentions of the eligible positions among a..b, in order
RECURSIVE C18_MentionsIn(_, _)
C18_MentionsIn(a, b) ==
    IF a > b THEN <<>>
    ELSE (IF C18_Eligible(a) THEN MentionsOf(all_text_elements, a)
          ELSE <<>>) \o C18_MentionsIn(a + 1, b)

\* the mentions of all positions among a..b, in order
RECURSIVE C18_AllMentionsIn(_, _)
C18_AllMentionsIn(a, b) ==
    IF a > b THEN <<>>
    ELSE MentionsOf(all_text_elements, a) \o C18_AllMentionsIn(a + 1, b)

C19_StrategyHeadings ==
    {k \in DOMAIN all_text_elements :
        IsStrategyHeading(all_text_elements[k])}

C20_ChecklistHeadings ==
    {k \in DOMAIN all_text_elements :
        IsChecklistHeading(all_text_elements[k])}

\* the first pass is over
C19_Scanned == pc \in {"second_pass", "budget_result"}

\* C19 as stated: the first element that matches a strategy-explainer
\* pattern fixes strategyIndex; after the boundary scan strategyIndex is the
\* least matching position, and once set a later match never replaces it.
C19_FirstMatchWins ==
    /\ []((C19_Scanned /\ C19_StrategyHeadings # {})
            => /\ strategy_explainer_index \in C19_StrategyHeadings
               /\ \A k \in C19_StrategyHeadings :
                     strategy_explainer_index <= k)
    /\ [][ (pc = "first_pass" /\ strategy_explainer_index # None)
             => strategy_explainer_index' = strategy_explainer_index ]_vars

\* C20 as stated: checklistIndex is the first position of a checklist
\* heading, and strategy detection looks at every element whatever the
\* checklist scan has found: a strategy heading anywhere in the sequence,
\* also after the first checklist heading, sets strategyIndex.
C20_DetectionsIndependent ==
    C19_Scanned =>
        /\ C20_ChecklistHeadings # {}
              => /\ creative_checklist_index \in C20_ChecklistHeadings
                 /\ \A k \in C20_ChecklistHeadings :
                       creative_checklist_index <= k
        /\ C20_ChecklistHeadings = {} => creative_checklist_index = None
        /\ C19_StrategyHeadings # {} => strategy_explainer_index # None

----------------------------------------------------------------------------
(* Claims about zones and the other extractors                            *)

\* two recorded runs with the same boundaries, both detected, whose element
\* lists differ only strictly between the two boundaries
C21_SameButNarrative(r1, r2) ==
    /\ r1.strategy_explainer_index # None
    /\ r1.creative_checklist_index # None
    /\ r1.strategy_explainer_index = r2.strategy_explainer_index
    /\ r1.creative_checklist_index = r2.creative_checklist_index
    /\ Len(r1.all_text_elements) = Len(r2.all_text_elements)
    /\ \A k \in DOMAIN r1.all_text_elements :
          r1.all_text_elements[k] # r2.all_text_elements[k]
              => /\ r1.strategy_explainer_index < k
                 /\ k < r1.creative_checklist_index

\* the total of a budget result that has one
C21_Total(result) ==
    IF result.details \in {"within_tolerance", "exceeds_tolerance"}
    THEN result.actual.total ELSE 0

\* C21: for two documents with the same boundaries that differ only in the
\* text strictly between the strategy heading and the checklist heading,
\* the extracted mentions (amounts and platform, near-objective and
\* near-impressions tags) and the status and total of the budget check are
\* the same.
C21_NarrativeDoesNotMatter ==
    \A a, b \in DOMAIN runs :
        C21_SameButNarrative(runs[a], runs[b])
            => /\ runs[a].currency_data = runs[b].currency_data
               /\ runs[a].result.status = runs[b].result.status
               /\ C21_Total(runs[a].result) = C21_Total(runs[b].result)

\* the claim's machine from paragraph k on: a section heading switches it
\* off, a later checklist heading switches it on again
RECURSIVE C22_Resuming(_, _, _)
C22_Resuming(paras, k, on) ==
    IF k > Len(paras) THEN <<>>
    ELSE IF IsChecklistHeading(paras[k])
    THEN C22_Resuming(paras, k + 1, TRUE)
    ELSE IF on /\ Lex(paras[k]).stop
    THEN C22_Resuming(paras, k + 1, FALSE)
    ELSE (IF on THEN Lex(paras[k]).item ELSE <<>>)
         \o C22_Resuming(paras, k + 1, on)

\* C22 as stated: the extractor is OFF until a checklist heading, collects
\* the glyph paragraphs while ON, goes back to OFF at a section heading,
\* and from OFF a later checklist heading switches it ON again; the list
\* returned is what this machine collects over all paragraphs.
C22_ResumesAfterSection ==
    pc = "checklist_end"
        => creative_checklist = C22_Resuming(paragraphs, 1, FALSE)

\* the positions of the checklist headings and of the section headings
C22_Headings ==
    {k \in DOMAIN paragraphs : IsChecklistHeading(paragraphs[k])}

C22_First ==
    IF C22_Headings = {} THEN Len(paragraphs) + 1
    ELSE CHOOSE k \in C22_Headings : \A m \in C22_Headings : k <= m

C22_Sections ==
    {k \in DOMAIN paragraphs :
        /\ k > C22_First
        /\ Lex(paragraphs[k]).stop
        /\ ~IsChecklistHeading(paragraphs[k])}

C22_Last ==
    IF C22_Sections = {} THEN Len(paragraphs) + 1
    ELSE CHOOSE k \in C22_Sections : \A m \in C22_Sections : k <= m

\* the items of the glyph paragraphs among a..b that are no headings
RECURSIVE C22_Items(_, _)
C22_Items(a, b) ==
    IF a > b THEN <<>>
    ELSE (IF IsChecklistHeading(paragraphs[a]) THEN <<>>
          ELSE Lex(paragraphs[a]).item) \o C22_Items(a + 1, b)

\* C22 amended: the extractor is OFF until the first checklist heading,
\* which is no item; from there it collects every paragraph that starts
\* with a glyph, stripped of its leading glyphs, unless nothing is left of
\* it; the first section heading after that ends the scan, so nothing
\* after it is collected, also not under a later checklist heading; in
\* between the machine only goes from OFF to ON and nothing is collected
\* while OFF.
C22_EndsAtSection ==
    /\ [](pc = "checklist_end"
            => /\ creative_checklist = C22_Items(C22_First + 1, C22_Last - 1)
               /\ creative_checklist = ExtractCreativeChecklist(paragraphs))
    /\ [](pc = "checklist_off" => creative_checklist = <<>>)
    /\ [][ /\ pc = "checklist_on" => pc' \in {"checklist_on", "checklist_end"}
           /\ pc = "checklist_end" => pc' = "checklist_end"
           /\ creative_checklist' # creative_checklist
                => /\ pc = "checklist_on"
                   /\ creative_checklist' =
                         creative_checklist \o Lex(paragraphs[i]).item ]_vars

\* an item is collected, the section heading after it ends the scan and the
\* glyph paragraph after the section heading is left out
C22_Witness ==
    /\ pc = "checklist_end"
    /\ Len(paragraphs) = 4
    /\ IsChecklistHeading(paragraphs[1])
    /\ Lex(paragraphs[2]).item # <<>>
    /\ Lex(paragraphs[3]).stop
    /\ Lex(paragraphs[4]).item # <<>>
    /\ creative_checklist = Lex(paragraphs[2]).item

\* the patterns of the list by what the claim says a match assigns
C23_StartPatterns == {1, 2}
C23_EndPatterns == {3, 4}
C23_TwoDatePatterns == {5, 6}

\* the matches in scan order: <<paragraph, pattern>> pairs of the
\* paragraphs before position n
C23_Matches(n, patterns) ==
    {m \in (1..(n - 1)) \X patterns :
        Lex(paragraphs[m[1]]).dates[m[2]] # <<>>}

C23_Later(m1, m2) ==
    m1[1] > m2[1] \/ (m1[1] = m2[1] /\ m1[2] >= m2[2])

\* the last of a non-empty set of matches
C23_LastOf(ms) == CHOOSE m \in ms : \A o \in ms : C23_Later(m, o)

\* the value of the last assignment to start among the first n - 1
\* paragraphs
C23_Start(n) ==
    LET ms == C23_Matches(n, C23_StartPatterns \cup C23_TwoDatePatterns)
    IN  IF ms = {} THEN "None"
        ELSE Lex(paragraphs[C23_LastOf(ms)[1]]).dates[C23_LastOf(ms)[2]][1]

\* the value of the last assignment to end
C23_End(n) ==
    LET ms == C23_Matches(n, C23_EndPatterns \cup C23_TwoDatePatterns)
    IN  IF ms = {} THEN "None"
        ELSE LET m == C23_LastOf(ms)
                 groups == Lex(paragraphs[m[1]]).dates[m[2]]
             IN  IF m[2] \in C23_TwoDatePatterns THEN groups[2]
                 ELSE groups[1]

\* C23: scanning the paragraphs forward with the patterns in list order, a
\* start-labelled match assigns start, an end-labelled match assigns end, a
\* two-date match assigns both, and a later assignment overwrites: at every
\* point of the scan and at the return, start (end) is the value of the
\* last assignment to start (end) so far, and is absent only if there was
\* none.
C23_LastMatchKept ==
    /\ [](pc \in {"dates_scan", "dates_end"}
            => /\ start_date = C23_Start(i)
               /\ end_date = C23_End(i))
    /\ [](pc = "dates_end"
            => <<start_date, end_date>> = ExtractCampaignDates(paragraphs))

\* a start and an end set by a two-date paragraph are both overwritten by
\* labelled paragraphs after it
C23_Witness ==
    /\ pc = "dates_end"
    /\ Len(paragraphs) = 4
    /\ Lex(paragraphs[1]).dates[1] # <<>>
    /\ Lex(paragraphs[2]).dates[6] # <<>>
    /\ Lex(paragraphs[3]).dates[2] # <<>>
    /\ Lex(paragraphs[4]).dates[4] # <<>>
    /\ start_date = "2024-02-01"
    /\ end_date = "2024-02-28"

\* a table with at least two rows whose header row names a plan column
C24_Qualifies(table) ==
    /\ Len(table) >= 2
    /\ \E k \in DOMAIN table[1] :
          \E kw \in {"platform", "channel", "cost", "budget", "objective"} :
              Contains(Lower(table[1][k]), kw)

\* a row with at least one non-empty cell value under a header
C24_NonEmpty(table, r) ==
    \E k \in DOMAIN table[r] :
        k <= Len(table[1]) /\ Strip(table[r][k]) # ""

\* the non-header rows of the qualifying tables from table n on, in
\* document order, that have a non-empty value
RECURSIVE C24_RowsFrom(_, _)
C24_RowsFrom(n, r) ==
    IF n > Len(tables) THEN <<>>
    ELSE IF r > Len(tables[n]) \/ ~C24_Qualifies(tables[n])
    THEN C24_RowsFrom(n + 1, 2)
    ELSE (IF C24_NonEmpty(tables[n], r) THEN <<r>> ELSE <<>>)
         \o C24_RowsFrom(n, r + 1)

\* C24 as stated: the extractor returns one row for every non-header row
\* of a qualifying table that has at least one non-empty cell value, in
\* document order; a row is dropped only when all its values are empty and
\* a table that does not qualify contributes no row.
C24_OneRowPerNonEmptyRow ==
    pc = "channel_check"
        => Len(media_plan_data) = Len(C24_RowsFrom(1, 2))

============================================================================
